---- MODULE Spec2Model ----
(***************************************************************************)
(* Model of the gRPC helpers of cg-shared-libs:                            *)
(*   - retryInterceptor / isRetryable          (grpc/client.go)            *)
(*   - ConvertConnectToGRPCError               (grpc/connect_adapter.go)   *)
(*   - AuthInterceptor / GetAuthInfo           (grpc/server.go)            *)
(* Each component has its own specification over the shared variables.     *)
(***************************************************************************)
EXTENDS Integers, Sequences, FiniteSets, TLC

VARIABLES
    \* ---- retryInterceptor (one call) ----
    maxRetries,   \* argument maxRetries (int)
    waitTime,     \* argument waitTime (time.Duration, int64 as 4 limbs of 16 bits)
    pc,           \* position of the call: "idle", "invoke", "wait", "done" ("off": no call)
    i,            \* loop variable i
    lastErr,      \* local lastErr
    calls,        \* results of the invoker, in order of invocation
    ret,          \* value returned by the interceptor (meaningful when pc = "done")
    ctxErr,       \* ctx.Err(): NilErr while the context is live
    timer,        \* time.After channel: ticks until it is ready, Far = beyond the horizon
    waits,        \* arguments given to time.After, in order
    elapsed,      \* time spent in backoff waits so far
    slack,        \* time spent in waits after the timer was already ready
    \* ---- ConvertConnectToGRPCError ----
    cin,          \* the error given to the first application
    couts,        \* results: couts[1] = f(cin), couts[k+1] = f(couts[k])
    cpc,          \* "run" while applications may follow, "idle" otherwise
    \* ---- AuthInterceptor ----
    skipMethods,  \* AuthInterceptorConfig.SkipMethods
    alog,         \* records of the calls served: the previous one and the last one
    ncalls,       \* number of calls served so far
    \* ---- server interceptor chain (NewServer) ----
    srvInstall,   \* how the hosting service passes its auth interceptor in opts
    srvTimeout,   \* cfg.Timeout, in ticks
    srvAlive,     \* the server process is running
    srvServed,    \* number of calls that have returned
    sphase,       \* "idle", "down" (entering interceptors), "handler", "up", "done"
    sdepth,       \* index in the chain of the interceptor being entered or left
    snow,         \* clock
    sparentDl,    \* deadline of the incoming context
    sctx,         \* context derived by timeoutInterceptor
    sres,         \* (resp, err) or panic travelling up the chain
    shout,        \* what the handler did, NoOutcome if it did not run
    stin,         \* what timeoutInterceptor's handler(ctx, req) gave it
    stout,        \* what timeoutInterceptor returned, NoOutcome before that
    sfaultAt,     \* interceptor in which a fault was raised, "none" otherwise
    slog,         \* records of the calls that returned: the previous and the last
    sentered,     \* the call has entered loggingInterceptor
    sauth,        \* what the auth interceptor did: "none", "skipped", "verified"
    semitted,     \* completion records loggingInterceptor wrote for the call
    \* ---- Kafka consumer (Consumer.Consume), one partition ----
    kpc,          \* "select", "fetch", "handle", "commit", "returned"
    kctxErr,      \* ctx.Err(): NilErr until the context is cancelled
    knext,        \* offset of the message the reader's next FetchMessage gives
    kmsg,         \* offset of the message in hand, -1 when none
    kcommitted,   \* committed offset of the consumer group
    ksucceeded,   \* offsets for which a handler invocation returned nil
    kfailed,      \* offsets for which a handler invocation returned an error
    kret,         \* what Consume returned
    krestarts,    \* number of times the service started a new consumer
    kfetchCtx,    \* ctx.Err() at the moment FetchMessage delivered kmsg
    \* ---- postgres.RunMigrations ----
    mpc,          \* "start", "check1", "version", "check2", "up", "done"
    mctxErr,      \* Err() of the context derived in RunMigrations
    mctxAtCall,   \* Err() of the caller's context when RunMigrations was called
    menv,         \* which steps the environment makes fail
    mver,         \* version in schema_migrations, -1 when none
    mdirty,       \* dirty flag in schema_migrations
    mwasDirty,    \* var wasDirty
    mops,         \* operations executed on the migrator, in order
    mret,         \* what RunMigrations returned
    mclosed,      \* the deferred m.Close() has run
    \* ---- config.Load ----
    lpc,          \* "read", "env", "done"
    lfile,        \* what is at the path given to Load
    lfields,      \* the tagged fields of the struct, with their env and YAML values
    lvals,        \* the values of the fields of cfg
    li,           \* index of the field processStruct is at
    lerr,         \* the error Load returned
    \* ---- MultiConsumer.Close ----
    mcpc,         \* "loop", "done"
    mcCons,       \* what Close of each consumer does
    mcClosed,     \* indices of the consumers on which Close was called
    mci,          \* index of the consumer the loop is at
    mcret,        \* what MultiConsumer.Close returned
    \* ---- redis Client.Lock / Client.Unlock ----
    rkey,         \* the lock key on the server: value and remaining time
    rlast,        \* the last Lock or Unlock: caller, result, key before and after
    rops,         \* number of Lock and Unlock calls so far
    rexpired,     \* clients whose lock ran out and who have not locked again
    ron,          \* a redis server is in use
    \* ---- client chain of NewClient: logging around retry ----
    clpc,         \* "start", "inner" (the retry interceptor runs), "done"
    clrecs,       \* records clientLoggingInterceptor wrote for the call
    clstart,      \* start := time.Now()
    clret,        \* the error the caller got
    \* ---- MultiConsumer.ConsumeAll ----
    capc,         \* "spawn", "select", "returned"
    caN,          \* len(mc.consumers)
    cai,          \* index of the consumer the spawning loop is at
    cag,          \* per goroutine: "none", "consuming", "sending", "done"
    caCh,         \* errCh: the buffered results
    caCtx,        \* Err() of the context given to ConsumeAll
    caret,        \* what ConsumeAll returned
    \* ---- Pool.WithTx ----
    txpc,         \* "begin", "fn", "rollback", "commit", "recover", "done", "panicked"
    txenv,        \* what Begin, fn, Rollback and Commit do
    txops,        \* commit and rollback attempts on the transaction, in order
    txret,        \* what WithTx returned
    txraised,     \* the panic value WithTx raised to its caller
    \* ---- jwt.Manager ----
    jcfg,         \* accessTokenTTL and refreshTokenTTL of the manager, in seconds
    jnow,         \* the clock, in seconds
    jpairs,       \* the token pairs the manager issued
    jlast         \* the last operation on the manager and its result

retryVars == <<maxRetries, waitTime, pc, i, lastErr, calls, ret, ctxErr,
               timer, waits, elapsed, slack>>
convVars  == <<cin, couts, cpc>>
authVars  == <<skipMethods, alog, ncalls>>
srvVars   == <<srvInstall, srvTimeout, srvAlive, srvServed, sphase, sdepth, snow,
               sparentDl, sctx, sres, shout, stin, stout, sfaultAt, slog,
               sentered, semitted, sauth>>
kafkaVars == <<kpc, kctxErr, knext, kmsg, kcommitted, ksucceeded, kfailed, kret,
               krestarts, kfetchCtx>>
migVars == <<mpc, mctxErr, mctxAtCall, menv, mver,
             mdirty, mwasDirty, mops, mret, mclosed>>
loadVars == <<lpc, lfile, lfields, lvals, li, lerr>>
mcVars == <<mcpc, mcCons, mcClosed, mci, mcret>>
lockVars == <<rkey, rlast, rops, rexpired, ron>>
clientVars == <<clpc, clrecs, clstart, clret>>
caVars == <<capc, caN, cai, cag, caCh, caCtx, caret>>
txVars == <<txpc, txenv, txops, txret, txraised>>
jwtVars == <<jcfg, jnow, jpairs, jlast>>

\* ------------------------------------------------------------------------
\* Bounds of the model
\* ------------------------------------------------------------------------
MaxN     == 3    \* largest maxRetries explored
MaxSlack == 1    \* extra ticks a waiting goroutine may stay descheduled
MaxApply == 2    \* applications of ConvertConnectToGRPCError in a row
MaxCalls == 2    \* calls served by one AuthInterceptor
MaxServed == 2   \* calls served by one server
MaxNow   == 3    \* last tick of the server clock
MaxOffset == 3   \* number of messages in the partition
MaxRestarts == 1 \* times a new consumer of the group is started
MaxFields == 2   \* fields of the configuration struct
MaxConsumers == 3 \* consumers of one MultiConsumer
MaxOps == 4      \* Lock and Unlock calls on the lock key
MaxPairs == 2 \* token pairs issued by one manager
MigLatest == 2   \* version of the newest migration file

\* ------------------------------------------------------------------------
\* Error values (Go's error interface)
\*   kind "nil"     : no error
\*   kind "plain"   : errors.New(msg), also context.Canceled / DeadlineExceeded
\*   kind "status"  : google.golang.org/grpc/status error (code, msg)
\*   kind "connect" : *connect.Error (code, msg of the wrapped error)
\*   kind "wrapped" : fmt.Errorf("wrap: %w", connectErr): not a *connect.Error
\* ------------------------------------------------------------------------
NilErr == [kind |-> "nil", code |-> "", msg |-> ""]

PlainError(m) == [kind |-> "plain", code |-> "", msg |-> m]

\* status.Error(c, msg): nil for codes.OK, a status error otherwise
StatusError(c, m) ==
    IF c = "OK" THEN NilErr ELSE [kind |-> "status", code |-> c, msg |-> m]

GrpcCodes == {"OK", "Canceled", "Unknown", "InvalidArgument", "DeadlineExceeded",
              "NotFound", "AlreadyExists", "PermissionDenied", "ResourceExhausted",
              "FailedPrecondition", "Aborted", "OutOfRange", "Unimplemented",
              "Internal", "Unavailable", "DataLoss", "Unauthenticated"}

\* status.Code(err): OK for nil, the code of a status error, Unknown otherwise
StatusCode(err) ==
    IF err.kind = "nil" THEN "OK"
    ELSE IF err.kind = "status" THEN err.code
    ELSE "Unknown"

\* context.Canceled and context.DeadlineExceeded
ContextCanceled         == PlainError("context canceled")
ContextDeadlineExceeded == PlainError("context deadline exceeded")

\* ------------------------------------------------------------------------
\* time.Duration: int64, two's complement, as 4 limbs of 16 bits (least
\* significant first) so that products wrap modulo 2^64 as in Go.
\* ------------------------------------------------------------------------
LimbBase == 2^16

DurZero   == <<0, 0, 0, 0>>
DurOfNat(n) == <<n % LimbBase, (n \div LimbBase) % LimbBase, 0, 0>>
DurMinusOne == <<LimbBase - 1, LimbBase - 1, LimbBase - 1, LimbBase - 1>>
DurMaxInt64 == <<LimbBase - 1, LimbBase - 1, LimbBase - 1, (LimbBase \div 2) - 1>>
DurTwoTo62  == <<0, 0, 0, LimbBase \div 4>>

DurIsNeg(d) == d[4] >= LimbBase \div 2

\* d * k on int64 for a small non-negative k (wraps modulo 2^64)
DurMulSmall(d, k) ==
    LET p1 == d[1] * k
        p2 == d[2] * k + (p1 \div LimbBase)
        p3 == d[3] * k + (p2 \div LimbBase)
        p4 == d[4] * k + (p3 \div LimbBase)
    IN  <<p1 % LimbBase, p2 % LimbBase, p3 % LimbBase, p4 % LimbBase>>

\* signed comparison a < b
DurLess(a, b) ==
    IF DurIsNeg(a) # DurIsNeg(b) THEN DurIsNeg(a)
    ELSE \E k \in 1..4 : /\ a[k] < b[k]
                         /\ \A j \in (k+1)..4 : a[j] = b[j]

\* the mathematical product d * k exceeds the int64 range (d >= 0, k >= 0)
DurMulOverflows(d, k) ==
    LET p1 == d[1] * k
        p2 == d[2] * k + (p1 \div LimbBase)
        p3 == d[3] * k + (p2 \div LimbBase)
        p4 == d[4] * k + (p3 \div LimbBase)
    IN  p4 >= LimbBase \div 2

\* ------------------------------------------------------------------------
\* retryInterceptor
\* ------------------------------------------------------------------------
Far == 99   \* a timer that does not become ready within the explored horizon

\* ticks until the channel of time.After(d) is ready: at once for d <= 0
TimeAfter(d) ==
    IF DurIsNeg(d) \/ d = DurZero THEN 0
    ELSE IF d[2] = 0 /\ d[3] = 0 /\ d[4] = 0 /\ d[1] < Far THEN d[1]
    ELSE Far

\* mutants of isRetryable: Unavailable left out; InvalidArgument let in
isRetryable_NoUnavailable(code) ==
    code \in {"ResourceExhausted", "Aborted", "Internal"}

isRetryable_InvalidArgument(code) ==
    code \in {"Unavailable", "ResourceExhausted", "Aborted", "Internal", "InvalidArgument"}

isRetryable(code) ==
    code \in {"Unavailable", "ResourceExhausted", "Aborted", "Internal"}

\* waitDuration := waitTime * time.Duration(i+1)
waitDuration(w, n) == DurMulSmall(w, n + 1)

\* for i := 0; i <= maxRetries; i++
loopCond(n, max) == n <= max

\* if i < maxRetries { ... select ... }
hasRetryLeft(n, max) == n < max

\* mutant of setLastErr: the first failure is kept
setLastErr_KeepFirst(prev, err) == IF prev = NilErr THEN err ELSE prev

\* lastErr = err
setLastErr(prev, err) == err

\* results the underlying invoker may produce
InvokerResults ==
    {NilErr}
    \cup {StatusError(c, "e1") :
            c \in {"Unavailable", "ResourceExhausted", "Aborted", "Internal",
                   "InvalidArgument", "NotFound", "Canceled", "DeadlineExceeded"}}
    \cup {StatusError("Unavailable", "e2"), PlainError("io")}

WaitTimes == {DurZero, DurOfNat(1), DurOfNat(2), DurMinusOne, DurMaxInt64, DurTwoTo62}

InitRetry ==
    /\ maxRetries \in (-1)..MaxN
    /\ waitTime \in WaitTimes
    /\ pc = "idle"
    /\ i = 0
    /\ lastErr = NilErr
    /\ calls = <<>>
    /\ ret = NilErr
    /\ ctxErr = NilErr
    /\ timer = 0
    /\ waits = <<>>
    /\ elapsed = 0
    /\ slack = 0

\* no retry call in progress: the state of the other specifications
RetryIdle ==
    /\ maxRetries = 0
    /\ waitTime = DurZero
    /\ pc = "off"
    /\ i = 0
    /\ lastErr = NilErr
    /\ calls = <<>>
    /\ ret = NilErr
    /\ ctxErr = NilErr
    /\ timer = 0
    /\ waits = <<>>
    /\ elapsed = 0
    /\ slack = 0

ConvIdle ==
    /\ cin = NilErr
    /\ couts = <<>>
    /\ cpc = "idle"

AuthIdle ==
    /\ skipMethods = <<>>
    /\ alog = <<>>
    /\ ncalls = 0

\* (resp, err, panic value): pv = "" when nothing panicked
Outcome(resp, err, pv) == [resp |-> resp, err |-> err, pv |-> pv]

NoOutcome == [resp |-> "-", err |-> NilErr, pv |-> ""]

\* a context deadline: none, or a tick of the clock
NoDeadline == [has |-> FALSE, at |-> 0]

Deadline(t) == [has |-> TRUE, at |-> t]

NoCtx == [made |-> FALSE, dl |-> NoDeadline, released |-> FALSE]

SrvIdle ==
    /\ srvInstall = "none"
    /\ srvTimeout = 0
    /\ srvAlive = FALSE
    /\ srvServed = 0
    /\ sphase = "off"
    /\ sdepth = 0
    /\ snow = 0
    /\ sparentDl = NoDeadline
    /\ sctx = NoCtx
    /\ sres = NoOutcome
    /\ shout = NoOutcome
    /\ stin = NoOutcome
    /\ stout = NoOutcome
    /\ sfaultAt = "none"
    /\ slog = <<>>
    /\ sentered = FALSE
    /\ semitted = <<>>
    /\ sauth = "none"

KafkaIdle ==
    /\ kpc = "off"
    /\ kctxErr = NilErr
    /\ knext = 0
    /\ kmsg = -1
    /\ kcommitted = 0
    /\ ksucceeded = {}
    /\ kfailed = {}
    /\ kret = NilErr
    /\ krestarts = 0
    /\ kfetchCtx = NilErr

MigIdle ==
    /\ mpc = "off"
    /\ mctxErr = NilErr
    /\ mctxAtCall = NilErr
    /\ menv = [absOk |-> TRUE, newOk |-> TRUE, verErr |-> FALSE, forceErr |-> FALSE,
               rbErr |-> FALSE, upErr |-> FALSE]
    /\ mver = -1
    /\ mdirty = FALSE
    /\ mwasDirty = FALSE
    /\ mops = <<>>
    /\ mret = NilErr
    /\ mclosed = FALSE

LoadIdle ==
    /\ lpc = "off"
    /\ lfile = "nopath"
    /\ lfields = <<>>
    /\ lvals = <<>>
    /\ li = 1
    /\ lerr = NilErr

McIdle ==
    /\ mcpc = "off"
    /\ mcCons = <<>>
    /\ mcClosed = {}
    /\ mci = 1
    /\ mcret = NilErr

LockIdle ==
    /\ rkey = [val |-> "", ttl |-> 0]
    /\ rlast = [op |-> "none", client |-> "", ok |-> FALSE,
                before |-> [val |-> "", ttl |-> 0], after |-> [val |-> "", ttl |-> 0]]
    /\ rops = 0
    /\ rexpired = {}
    /\ ron = FALSE

ClientIdle ==
    /\ clpc = "off"
    /\ clrecs = <<>>
    /\ clstart = 0
    /\ clret = NilErr

CaIdle ==
    /\ capc = "off"
    /\ caN = 0
    /\ cai = 1
    /\ cag = <<>>
    /\ caCh = <<>>
    /\ caCtx = NilErr
    /\ caret = NilErr

TxIdle ==
    /\ txpc = "off"
    /\ txenv = [begin |-> NilErr, fn |-> [kind |-> "return", err |-> NilErr, pv |-> ""],
                rollback |-> NilErr, commit |-> NilErr]
    /\ txops = <<>>
    /\ txret = NilErr
    /\ txraised = ""

JwtIdle ==
    /\ jcfg = [accessTokenTTL |-> 0, refreshTokenTTL |-> 0]
    /\ jnow = 0
    /\ jpairs = <<>>
    /\ jlast = [op |-> "none", slot |-> "", pair |-> 0, ok |-> FALSE,
                err |-> [kind |-> "nil", code |-> "", msg |-> ""]]

\* the interceptor is entered: var lastErr error; for i := 0; i <= maxRetries
RetryCall ==
    /\ pc = "idle"
    /\ i' = 0
    /\ lastErr' = NilErr
    /\ IF loopCond(0, maxRetries)
         THEN pc' = "invoke" /\ ret' = ret
         ELSE pc' = "done" /\ ret' = NilErr      \* return lastErr
    /\ UNCHANGED <<maxRetries, waitTime, calls, ctxErr, timer, waits, elapsed, slack>>

\* one pass of the loop body up to the select (or to a return)
Invoke ==
    /\ pc = "invoke"
    /\ \E err \in InvokerResults :
         /\ calls' = Append(calls, err)
         /\ IF err = NilErr THEN
                /\ ret' = NilErr
                /\ pc' = "done"
                /\ UNCHANGED <<i, lastErr, timer, waits>>
            ELSE IF ~isRetryable(StatusCode(err)) THEN
                /\ lastErr' = setLastErr(lastErr, err)
                /\ ret' = err
                /\ pc' = "done"
                /\ UNCHANGED <<i, timer, waits>>
            ELSE IF hasRetryLeft(i, maxRetries) THEN
                /\ lastErr' = setLastErr(lastErr, err)
                /\ waits' = Append(waits, waitDuration(waitTime, i))
                /\ timer' = TimeAfter(waitDuration(waitTime, i))
                /\ pc' = "wait"
                /\ UNCHANGED <<i, ret>>
            ELSE
                \* i++, then the loop condition is evaluated again
                /\ lastErr' = setLastErr(lastErr, err)
                /\ i' = i + 1
                /\ IF loopCond(i + 1, maxRetries)
                     THEN pc' = "invoke" /\ ret' = ret
                     ELSE pc' = "done" /\ ret' = lastErr'
                /\ UNCHANGED <<timer, waits>>
    /\ UNCHANGED <<maxRetries, waitTime, ctxErr, elapsed, slack>>

\* select: case <-ctx.Done(): return ctx.Err()
SelectDone ==
    /\ pc = "wait"
    /\ ctxErr # NilErr
    /\ ret' = ctxErr
    /\ pc' = "done"
    /\ UNCHANGED <<maxRetries, waitTime, i, lastErr, calls, ctxErr, timer, waits,
                   elapsed, slack>>

\* select: case <-time.After(waitDuration): next iteration (i++, i <= maxRetries)
SelectTimer ==
    /\ pc = "wait"
    /\ timer = 0
    /\ i' = i + 1
    /\ IF loopCond(i + 1, maxRetries)
         THEN pc' = "invoke" /\ ret' = ret
         ELSE pc' = "done" /\ ret' = lastErr
    /\ UNCHANGED <<maxRetries, waitTime, lastErr, calls, ctxErr, timer, waits,
                   elapsed, slack>>

\* time passes while the goroutine is blocked in (or not yet woken from) select
Tick ==
    /\ pc = "wait"
    /\ \/ /\ timer > 0 /\ timer < Far
          /\ timer' = timer - 1
          /\ elapsed' = IF elapsed < Far THEN elapsed + 1 ELSE Far
          /\ slack' = slack
       \/ \* a duration beyond the horizon passes in one step
          /\ timer = Far
          /\ timer' = 0
          /\ elapsed' = Far
          /\ slack' = slack
       \/ /\ timer = 0
          /\ slack < MaxSlack
          /\ slack' = slack + 1
          /\ elapsed' = IF elapsed < Far THEN elapsed + 1 ELSE Far
          /\ timer' = timer
    /\ UNCHANGED <<maxRetries, waitTime, pc, i, lastErr, calls, ret, ctxErr, waits>>

\* the caller cancels the context, or its deadline expires
Cancel ==
    /\ pc \in {"idle", "invoke", "wait"}
    /\ ctxErr = NilErr
    /\ ctxErr' \in {ContextCanceled, ContextDeadlineExceeded}
    /\ UNCHANGED <<maxRetries, waitTime, pc, i, lastErr, calls, ret, timer, waits,
                   elapsed, slack>>

NextRetry ==
    \/ RetryCall /\ UNCHANGED <<convVars, authVars, srvVars, kafkaVars, migVars,
                                loadVars, mcVars, lockVars, clientVars, caVars, txVars, jwtVars>>
    \/ Invoke /\ UNCHANGED <<convVars, authVars, srvVars, kafkaVars, migVars, loadVars,
                             mcVars, lockVars, clientVars, caVars, txVars, jwtVars>>
    \/ SelectDone /\ UNCHANGED <<convVars, authVars, srvVars, kafkaVars, migVars,
                                 loadVars, mcVars, lockVars, clientVars, caVars, txVars, jwtVars>>
    \/ SelectTimer /\ UNCHANGED <<convVars, authVars, srvVars, kafkaVars, migVars,
                                  loadVars, mcVars, lockVars, clientVars, caVars, txVars, jwtVars>>
    \/ Tick /\ UNCHANGED <<convVars, authVars, srvVars, kafkaVars, migVars, loadVars,
                           mcVars, lockVars, clientVars, caVars, txVars, jwtVars>>
    \/ Cancel /\ UNCHANGED <<convVars, authVars, srvVars, kafkaVars, migVars, loadVars,
                             mcVars, lockVars, clientVars, caVars, txVars, jwtVars>>

vars == <<retryVars, convVars, authVars, srvVars, kafkaVars, migVars, loadVars, mcVars, lockVars, clientVars, caVars, txVars, jwtVars>>

InitSpecRetry == InitRetry /\ ConvIdle /\ AuthIdle /\ SrvIdle /\ KafkaIdle /\ MigIdle /\ LoadIdle /\ McIdle /\ LockIdle /\ ClientIdle /\ CaIdle /\ TxIdle /\ JwtIdle

SpecRetry == InitSpecRetry /\ [][NextRetry]_vars

\* ------------------------------------------------------------------------
\* ConvertConnectToGRPCError
\* ------------------------------------------------------------------------
ConnectCodes == {"CodeCanceled", "CodeUnknown", "CodeInvalidArgument",
                 "CodeDeadlineExceeded", "CodeNotFound", "CodeAlreadyExists",
                 "CodePermissionDenied", "CodeResourceExhausted",
                 "CodeFailedPrecondition", "CodeAborted", "CodeOutOfRange",
                 "CodeUnimplemented", "CodeInternal", "CodeUnavailable",
                 "CodeDataLoss", "CodeUnauthenticated",
                 "Code(17)"}         \* a connect.Code value outside the enumeration

\* connect.NewError(c, errors.New(m))
ConnectError(c, m) == [kind |-> "connect", code |-> c, msg |-> m]

\* fmt.Errorf("wrap: %w", connect.NewError(c, errors.New(m)))
WrappedConnectError(c, m) == [kind |-> "wrapped", code |-> c, msg |-> m]

\* connect.Code.String()
ConnectCodeString(c) ==
    CASE c = "CodeCanceled"           -> "canceled"
      [] c = "CodeUnknown"            -> "unknown"
      [] c = "CodeInvalidArgument"    -> "invalid_argument"
      [] c = "CodeDeadlineExceeded"   -> "deadline_exceeded"
      [] c = "CodeNotFound"           -> "not_found"
      [] c = "CodeAlreadyExists"      -> "already_exists"
      [] c = "CodePermissionDenied"   -> "permission_denied"
      [] c = "CodeResourceExhausted"  -> "resource_exhausted"
      [] c = "CodeFailedPrecondition" -> "failed_precondition"
      [] c = "CodeAborted"            -> "aborted"
      [] c = "CodeOutOfRange"         -> "out_of_range"
      [] c = "CodeUnimplemented"      -> "unimplemented"
      [] c = "CodeInternal"           -> "internal"
      [] c = "CodeUnavailable"        -> "unavailable"
      [] c = "CodeDataLoss"           -> "data_loss"
      [] c = "CodeUnauthenticated"    -> "unauthenticated"
      [] OTHER                        -> "code_17"

\* (*connect.Error).Message(): the text of the underlying error
ConnectMessage(e) == e.msg

\* err.Error()
ErrorText(e) ==
    CASE e.kind = "plain"   -> e.msg
      [] e.kind = "status"  -> "rpc error: code = " \o e.code \o " desc = " \o e.msg
      [] e.kind = "connect" ->
            IF e.msg = "" THEN ConnectCodeString(e.code)
            ELSE ConnectCodeString(e.code) \o ": " \o e.msg
      [] e.kind = "wrapped" ->
            IF e.msg = "" THEN "wrap: " \o ConnectCodeString(e.code)
            ELSE "wrap: " \o ConnectCodeString(e.code) \o ": " \o e.msg
      [] OTHER -> ""

\* mutants of grpcCodeOf: a copy-paste slip in one case; another default;
\* no default at all (grpcCode keeps its zero value codes.OK)
grpcCodeOf_Slip(c) ==
    CASE c = "CodeNotFound"           -> "NotFound"
      [] c = "CodeInvalidArgument"    -> "InvalidArgument"
      [] c = "CodeAlreadyExists"      -> "AlreadyExists"
      [] c = "CodePermissionDenied"   -> "PermissionDenied"
      [] c = "CodeUnauthenticated"    -> "PermissionDenied"
      [] c = "CodeResourceExhausted"  -> "ResourceExhausted"
      [] c = "CodeFailedPrecondition" -> "FailedPrecondition"
      [] c = "CodeAborted"            -> "Aborted"
      [] c = "CodeOutOfRange"         -> "OutOfRange"
      [] c = "CodeUnimplemented"      -> "Unimplemented"
      [] c = "CodeInternal"           -> "Internal"
      [] c = "CodeUnavailable"        -> "Unavailable"
      [] c = "CodeDataLoss"           -> "DataLoss"
      [] OTHER                        -> "Unknown"

grpcCodeOf_DefaultInternal(c) ==
    CASE c = "CodeNotFound"           -> "NotFound"
      [] c = "CodeInvalidArgument"    -> "InvalidArgument"
      [] c = "CodeAlreadyExists"      -> "AlreadyExists"
      [] c = "CodePermissionDenied"   -> "PermissionDenied"
      [] c = "CodeUnauthenticated"    -> "Unauthenticated"
      [] c = "CodeResourceExhausted"  -> "ResourceExhausted"
      [] c = "CodeFailedPrecondition" -> "FailedPrecondition"
      [] c = "CodeAborted"            -> "Aborted"
      [] c = "CodeOutOfRange"         -> "OutOfRange"
      [] c = "CodeUnimplemented"      -> "Unimplemented"
      [] c = "CodeInternal"           -> "Internal"
      [] c = "CodeUnavailable"        -> "Unavailable"
      [] c = "CodeDataLoss"           -> "DataLoss"
      [] OTHER                        -> "Internal"

grpcCodeOf_NoDefault(c) ==
    CASE c = "CodeNotFound"           -> "NotFound"
      [] c = "CodeInvalidArgument"    -> "InvalidArgument"
      [] c = "CodeAlreadyExists"      -> "AlreadyExists"
      [] c = "CodePermissionDenied"   -> "PermissionDenied"
      [] c = "CodeUnauthenticated"    -> "Unauthenticated"
      [] c = "CodeResourceExhausted"  -> "ResourceExhausted"
      [] c = "CodeFailedPrecondition" -> "FailedPrecondition"
      [] c = "CodeAborted"            -> "Aborted"
      [] c = "CodeOutOfRange"         -> "OutOfRange"
      [] c = "CodeUnimplemented"      -> "Unimplemented"
      [] c = "CodeInternal"           -> "Internal"
      [] c = "CodeUnavailable"        -> "Unavailable"
      [] c = "CodeDataLoss"           -> "DataLoss"
      [] OTHER                        -> "OK"

\* the switch on connectErr.Code()
grpcCodeOf(c) ==
    CASE c = "CodeNotFound"           -> "NotFound"
      [] c = "CodeInvalidArgument"    -> "InvalidArgument"
      [] c = "CodeAlreadyExists"      -> "AlreadyExists"
      [] c = "CodePermissionDenied"   -> "PermissionDenied"
      [] c = "CodeUnauthenticated"    -> "Unauthenticated"
      [] c = "CodeResourceExhausted"  -> "ResourceExhausted"
      [] c = "CodeFailedPrecondition" -> "FailedPrecondition"
      [] c = "CodeAborted"            -> "Aborted"
      [] c = "CodeOutOfRange"         -> "OutOfRange"
      [] c = "CodeUnimplemented"      -> "Unimplemented"
      [] c = "CodeInternal"           -> "Internal"
      [] c = "CodeUnavailable"        -> "Unavailable"
      [] c = "CodeDataLoss"           -> "DataLoss"
      [] OTHER                        -> "Unknown"

ConvertConnectToGRPCError(err) ==
    IF err = NilErr THEN NilErr
    ELSE IF err.kind # "connect" THEN StatusError("Unknown", ErrorText(err))
    ELSE StatusError(grpcCodeOf(err.code), ConnectMessage(err))

ConvMsgs == {"", "some error", "custom error message"}

ConvInputs ==
    {NilErr}
    \cup {PlainError(m) : m \in ConvMsgs}
    \cup {ConnectError(c, m) : c \in ConnectCodes, m \in ConvMsgs}
    \cup {WrappedConnectError("CodeNotFound", m) : m \in ConvMsgs}

InitConv ==
    /\ cin \in ConvInputs
    /\ couts = <<>>
    /\ cpc = "run"

\* one application: to the input first, to the previous result afterwards
Convert ==
    /\ cpc = "run"
    /\ Len(couts) < MaxApply
    /\ couts' = Append(couts, ConvertConnectToGRPCError(
                                 IF couts = <<>> THEN cin ELSE couts[Len(couts)]))
    /\ UNCHANGED <<cin, cpc>>

NextConv == Convert /\ UNCHANGED <<retryVars, authVars, srvVars, kafkaVars, migVars,
                                   loadVars, mcVars, lockVars, clientVars, caVars, txVars, jwtVars>>

InitSpecConv == RetryIdle /\ InitConv /\ AuthIdle /\ SrvIdle /\ KafkaIdle /\ MigIdle /\ LoadIdle /\ McIdle /\ LockIdle /\ ClientIdle /\ CaIdle /\ TxIdle /\ JwtIdle

SpecConv == InitSpecConv /\ [][NextConv]_vars

\* ------------------------------------------------------------------------
\* AuthInterceptor
\* Strings the code slices or measures (metadata values, tokens) are
\* sequences of characters.
\* ------------------------------------------------------------------------
BearerPrefix == <<"B", "e", "a", "r", "e", "r", " ">>

TokA       == <<"A">>                                       \* accepted by the validator
TokLong    == <<"C", "C", "C", "C", "C", "C", "C", "C">>    \* accepted, 8 characters
TokX       == <<"X">>                                       \* rejected
LowerA     == <<"b", "e", "a", "r", "e", "r", " ", "A">>

\* the value stored under authContextKey{}: none, or a *AuthInfo
NoAuthInfo == [set |-> FALSE, UserID |-> 0, Phone |-> "", DeviceID |-> ""]

\* request context: value under authContextKey{}, incoming and outgoing metadata
Ctx(present, authz, uid) ==
    [authInfo |-> NoAuthInfo,
     hasMD    |-> present,
     incoming |-> [k \in {"authorization", "x-user-id"} |->
                     IF k = "authorization" THEN authz ELSE uid],
     outgoing |-> <<>>]

AuthorizationValues ==
    {<<>>, <<<<>>>>, <<TokA>>, <<TokX>>, <<TokLong>>,
     <<BearerPrefix \o TokA>>, <<BearerPrefix \o TokX>>, <<BearerPrefix>>,
     <<LowerA>>, <<<<>>, TokA>>, <<TokA, TokX>>}

IncomingContexts ==
    {Ctx(FALSE, <<>>, <<>>)}
    \cup {Ctx(TRUE, a, <<>>) : a \in AuthorizationValues}
    \cup {Ctx(TRUE, <<TokA>>, uid) : uid \in {<<<<"9">>>>, <<<<"4", "2">>>>}}
    \cup {[Ctx(TRUE, <<TokLong>>, <<>>) EXCEPT
              !.outgoing = <<<<"x-request-id", <<"r", "1">>>>>>]}

Methods == {"/auth.AuthService/SendCode", "/auth.AuthService/Verify",
            "/user.UserService/GetProfile"}

SkipConfigs == {<<>>, <<"/auth.AuthService/SendCode">>,
                <<"/auth.AuthService/SendCode", "/auth.AuthService/Verify">>,
                <<"/auth.AuthService/SendCode", "/auth.AuthService/SendCode">>}

\* what the handler does when it is invoked
HandlerOutcomes ==
    {[resp |-> "resp", err |-> NilErr, panic |-> FALSE],
     [resp |-> "nil", err |-> StatusError("NotFound", "no such user"), panic |-> FALSE],
     [resp |-> "nil", err |-> NilErr, panic |-> TRUE]}

\* the injected JWTValidator: the claims of the tokens it accepts
ValidatorClaims(t) ==
    IF t = TokA THEN [UserID |-> 42, Phone |-> "+77010000001", DeviceID |-> "dev-1"]
    ELSE [UserID |-> -7, Phone |-> "+77010000002", DeviceID |-> "dev-2"]

ValidatorAccepts(t) == t \in {TokA, TokLong}

ValidatorErrors == {PlainError("token is expired"), PlainError("signature is invalid")}

\* validator.ValidateAccessToken(token), failing with ve when it rejects
ValidateAccessToken(t, ve) ==
    IF ValidatorAccepts(t) THEN [ok |-> TRUE, claims |-> ValidatorClaims(t), err |-> NilErr]
    ELSE [ok |-> FALSE, claims |-> ValidatorClaims(t), err |-> ve]

\* fmt.Sprintf("%d", n)
Digits == <<"0", "1", "2", "3", "4", "5", "6", "7", "8", "9">>

RECURSIVE NatToString(_)
NatToString(n) ==
    IF n < 10 THEN <<Digits[n + 1]>>
    ELSE NatToString(n \div 10) \o <<Digits[(n % 10) + 1]>>

SprintfD(n) == IF n < 0 THEN <<"-">> \o NatToString(-n) ELSE NatToString(n)

\* mutant of skipMap: only the first configured method is entered
skipMap_FirstOnly(methods) ==
    IF methods = <<>> THEN {} ELSE {methods[1]}

\* skipMap[method] = true for every method of cfg.SkipMethods
skipMap(methods) == {methods[k] : k \in 1..Len(methods)}

\* mutant of GetMetadata: the last value of the key is taken
GetMetadata_Last(ctx, key) ==
    IF ~ctx.hasMD THEN <<>>
    ELSE IF Len(ctx.incoming[key]) = 0 THEN <<>>
    ELSE ctx.incoming[key][Len(ctx.incoming[key])]

\* GetMetadata(ctx, key): first value of the key in the incoming metadata, or ""
GetMetadata(ctx, key) ==
    IF ~ctx.hasMD THEN <<>>
    ELSE IF Len(ctx.incoming[key]) = 0 THEN <<>>
    ELSE ctx.incoming[key][1]

\* mutant of stripBearer: the prefix is kept
stripBearer_Keeps(token) == token

\* if len(token) > 7 && token[:7] == "Bearer " { token = token[7:] }
stripBearer(token) ==
    IF Len(token) > 7 /\ SubSeq(token, 1, 7) = BearerPrefix
      THEN SubSeq(token, 8, Len(token))
      ELSE token

\* GetAuthInfo(ctx): (info, ok)
GetAuthInfo(ctx) == [info |-> ctx.authInfo, ok |-> ctx.authInfo.set]

\* mutant of MustGetAuthInfo: a missing identity is returned as it is
MustGetAuthInfo_NoPanic(ctx) == [panic |-> FALSE, info |-> GetAuthInfo(ctx).info]

\* MustGetAuthInfo(ctx): the identity, or panic("auth info not found in context")
MustGetAuthInfo(ctx) ==
    IF ~GetAuthInfo(ctx).ok THEN [panic |-> TRUE, info |-> NoAuthInfo]
    ELSE [panic |-> FALSE, info |-> GetAuthInfo(ctx).info]

\* fmt.Sscanf(val, "%d", &id): an optional sign and the leading decimal
\* digits; n = 0 (with an error) when there is no digit
RECURSIVE ScanDigits(_, _)
ScanDigits(chars, acc) ==
    IF chars = <<>> \/ ~(\E d \in 0..9 : Digits[d + 1] = chars[1]) THEN acc
    ELSE ScanDigits(Tail(chars),
                    10 * acc + (CHOOSE d \in 0..9 : Digits[d + 1] = chars[1]))

SscanfD(val) ==
    LET signed == val # <<>> /\ val[1] \in {"-", "+"}
        body   == IF signed THEN Tail(val) ELSE val
        hasNum == body # <<>> /\ (\E d \in 0..9 : Digits[d + 1] = body[1])
        mag    == ScanDigits(body, 0)
    IN  IF ~hasNum THEN [n |-> 0, id |-> 0]
        ELSE [n |-> 1, id |-> IF signed /\ val[1] = "-" THEN -mag ELSE mag]

\* GetUserID(ctx): the x-user-id of the incoming metadata parsed as a
\* decimal number, 0 when it is missing or does not parse
GetUserID(ctx) ==
    LET val == GetMetadata(ctx, "x-user-id") IN
    IF val = <<>> THEN 0
    ELSE IF SscanfD(val).n # 1 THEN 0
    ELSE SscanfD(val).id

\* a context derived from ctx by the handler (context.WithValue under
\* another key, metadata.AppendToOutgoingContext): the values of ctx stay
ChildContext(ctx) ==
    [ctx EXCEPT !.outgoing = Append(@, <<"x-request-id", <<"r", "2">>>>)]

\* mutant of WithAuthInfo: x-user-id is written to the incoming metadata
WithAuthInfo_Incoming(ctx, claims) ==
    [ctx EXCEPT !.authInfo = [set |-> TRUE, UserID |-> claims.UserID,
                              Phone |-> claims.Phone, DeviceID |-> claims.DeviceID],
                !.incoming = [@ EXCEPT !["x-user-id"] =
                                           Append(@, SprintfD(claims.UserID))]]

\* mutant of WithAuthInfo: Phone and DeviceID are exchanged
WithAuthInfo_Swapped(ctx, claims) ==
    [ctx EXCEPT !.authInfo = [set |-> TRUE, UserID |-> claims.UserID,
                              Phone |-> claims.DeviceID, DeviceID |-> claims.Phone],
                !.outgoing = Append(@, <<"x-user-id", SprintfD(claims.UserID)>>)]

\* context.WithValue(ctx, authContextKey{}, authInfo), then
\* metadata.AppendToOutgoingContext(ctx, "x-user-id", fmt.Sprintf("%d", claims.UserID))
WithAuthInfo(ctx, claims) ==
    [ctx EXCEPT !.authInfo = [set |-> TRUE, UserID |-> claims.UserID,
                              Phone |-> claims.Phone, DeviceID |-> claims.DeviceID],
                !.outgoing = Append(@, <<"x-user-id", SprintfD(claims.UserID)>>)]

\* the record of one call: what went in, who was consulted (validated: the
\* strings given to the validator, verr: its error), the contexts the handler
\* was invoked with and what it did (hout), and what the caller got back
CallRecord(m, ctx, validated, verr, handled, hout, out) ==
    [method |-> m, ctx |-> ctx, validated |-> validated, verr |-> verr,
     handled |-> handled, hout |-> hout,
     resp |-> out.resp, err |-> out.err, panic |-> out.panic]

\* mutant of missingToken: the call is let through to a permission check
missingToken_PermissionDenied ==
    [resp |-> "nil", err |-> StatusError("PermissionDenied", "missing authorization token"),
     panic |-> FALSE]

\* return nil, status.Error(codes.Unauthenticated, "missing authorization token")
missingToken ==
    [resp |-> "nil", err |-> StatusError("Unauthenticated", "missing authorization token"),
     panic |-> FALSE]

\* mutant of invalidToken: the validator's error text is passed on
invalidToken_Leaks(verr) ==
    [resp |-> "nil", err |-> StatusError("Unauthenticated", ErrorText(verr)),
     panic |-> FALSE]

\* return nil, status.Error(codes.Unauthenticated, "invalid token")
invalidToken(verr) ==
    [resp |-> "nil", err |-> StatusError("Unauthenticated", "invalid token"),
     panic |-> FALSE]

\* mutant of handlerResult: the handler's error is wrapped into Internal
handlerResult_Wraps(h) ==
    IF h.err = NilErr THEN h
    ELSE [resp |-> h.resp, err |-> StatusError("Internal", h.err.msg), panic |-> h.panic]

\* return handler(ctx, req)
handlerResult(h) == h

\* the interceptor function returned by AuthInterceptor, for one call
AuthInterceptorCall(skip, m, ctx, ve, h) ==
    IF m \in skip THEN
        CallRecord(m, ctx, <<>>, NilErr, <<ctx>>, <<h>>, handlerResult(h))
    ELSE
        LET raw == GetMetadata(ctx, "authorization") IN
        IF raw = <<>> THEN
            CallRecord(m, ctx, <<>>, NilErr, <<>>, <<>>, missingToken)
        ELSE
            LET token == stripBearer(raw)
                v     == ValidateAccessToken(token, ve)
            IN  IF ~v.ok THEN
                    CallRecord(m, ctx, <<token>>, v.err, <<>>, <<>>, invalidToken(v.err))
                ELSE
                    CallRecord(m, ctx, <<token>>, NilErr,
                               <<WithAuthInfo(ctx, v.claims)>>, <<h>>, handlerResult(h))

InitAuth ==
    /\ skipMethods \in SkipConfigs
    /\ alog = <<>>
    /\ ncalls = 0

\* one call arrives and runs through the interceptor
AuthCall ==
    /\ ncalls < MaxCalls
    /\ \E m \in Methods, ctx \in IncomingContexts, ve \in ValidatorErrors,
          h \in HandlerOutcomes :
         alog' = (IF alog = <<>> THEN <<>> ELSE <<alog[Len(alog)]>>)
                    \o <<AuthInterceptorCall(skipMap(skipMethods), m, ctx, ve, h)>>
    /\ ncalls' = ncalls + 1
    /\ UNCHANGED skipMethods

NextAuth == AuthCall /\ UNCHANGED <<retryVars, convVars, srvVars, kafkaVars, migVars,
                                    loadVars, mcVars, lockVars, clientVars, caVars, txVars, jwtVars>>

InitSpecAuth == RetryIdle /\ ConvIdle /\ InitAuth /\ SrvIdle /\ KafkaIdle /\ MigIdle /\ LoadIdle /\ McIdle /\ LockIdle /\ ClientIdle /\ CaIdle /\ TxIdle /\ JwtIdle

SpecAuth == InitSpecAuth /\ [][NextAuth]_vars

\* ------------------------------------------------------------------------
\* Server interceptor chain: NewServer, recoveryInterceptor,
\* loggingInterceptor, timeoutInterceptor, and the auth interceptor the
\* hosting service adds through opts
\* ------------------------------------------------------------------------
\* mutant of serverChain: a single unary interceptor is put last
serverChain_SingleLast(install) ==
    IF install = "none" THEN <<"recovery", "logging", "timeout">>
    ELSE <<"recovery", "logging", "timeout", "auth">>

\* allOpts := append(defaultOpts, opts...); grpc.NewServer(allOpts...):
\* interceptors given with grpc.ChainUnaryInterceptor run in the order of
\* the options; the one given with grpc.UnaryInterceptor runs before the chain
serverChain(install) ==
    IF install = "none" THEN <<"recovery", "logging", "timeout">>
    ELSE IF install = "chain" THEN <<"recovery", "logging", "timeout", "auth">>
    ELSE <<"auth", "recovery", "logging", "timeout">>

\* mutant of recoveryDefer: nothing is recovered
recoveryDefer_NoRecover(res) == res

\* mutant of recoveryDefer: the panic value is put into the message
recoveryDefer_Leaks(res) ==
    IF res.pv # "" THEN Outcome("nil", StatusError("Internal", res.pv), "")
    ELSE res

\* defer func() { if r := recover(); r != nil { err = Internal "internal error" } }()
\* with the named results (resp any, err error)
recoveryDefer(res) ==
    IF res.pv # "" THEN Outcome("nil", StatusError("Internal", "internal error"), "")
    ELSE res

\* mutant of deriveDeadline: the incoming deadline is ignored
deriveDeadline_Own(parent, now, timeout) == Deadline(now + timeout)

\* context.WithTimeout(ctx, timeout): the earlier of the parent's deadline
\* and now + timeout
deriveDeadline(parent, now, timeout) ==
    IF parent.has /\ parent.at <= now + timeout THEN parent
    ELSE Deadline(now + timeout)

\* mutant of deferCancel: cancel() is called after handler returns, not deferred
deferCancel_NotOnPanic(res) == res.pv = ""

\* defer cancel(): runs when the interceptor returns and when it unwinds
deferCancel(res) == TRUE

\* mutant of timeoutReturn: an expired deadline ends the call
timeoutReturn_Preempts(res, expired) ==
    IF expired /\ res.pv = ""
      THEN Outcome("nil", StatusError("DeadlineExceeded", "context deadline exceeded"), "")
      ELSE res

\* return handler(ctx, req)
timeoutReturn(res, expired) == res

\* mutant of completionRecord: every completion is logged at debug level
completionRecord_AllDebug(res, duration) ==
    [level |-> "debug",
     code |-> IF res.err # NilErr THEN StatusCode(res.err) ELSE "OK",
     duration |-> duration, err |-> res.err]

\* loggingInterceptor after handler returned: code := codes.OK, or
\* status.Code(err) when err != nil; logger.Debug for OK, logger.Warn otherwise
completionRecord(res, duration) ==
    LET code == IF res.err # NilErr THEN StatusCode(res.err) ELSE "OK" IN
    [level |-> IF code = "OK" THEN "debug" ELSE "warn",
     code |-> code, duration |-> duration, err |-> res.err]

\* the deadline d has passed at time t
Expired(d, t) == d.has /\ d.at <= t

SrvInstalls == {"none", "chain", "single"}

SrvTimeouts == {0, 1, 2}

SrvParentDeadlines == {NoDeadline, Deadline(1), Deadline(3)}

\* what a handler may do
SrvHandlerOutcomes ==
    {Outcome("resp", NilErr, ""),
     Outcome("nil", StatusError("NotFound", "no such user"), ""),
     Outcome("nil", StatusError("DeadlineExceeded", "context deadline exceeded"), ""),
     Outcome("nil", NilErr, "boom")}

\* interceptors in which a fault may be raised before the next one is called
SrvFaulty == {"logging", "timeout", "auth"}

InitSrv ==
    /\ srvInstall \in SrvInstalls
    /\ srvTimeout \in SrvTimeouts
    /\ srvAlive = TRUE
    /\ srvServed = 0
    /\ sphase = "idle"
    /\ sdepth = 0
    /\ snow = 0
    /\ sparentDl = NoDeadline
    /\ sctx = NoCtx
    /\ sres = NoOutcome
    /\ shout = NoOutcome
    /\ stin = NoOutcome
    /\ stout = NoOutcome
    /\ sfaultAt = "none"
    /\ slog = <<>>
    /\ sentered = FALSE
    /\ semitted = <<>>
    /\ sauth = "none"

\* a call arrives and is given to the first interceptor of the chain
SrvBegin ==
    /\ srvAlive
    /\ sphase \in {"idle", "done"}
    /\ srvServed < MaxServed
    /\ sparentDl' \in SrvParentDeadlines
    /\ sphase' = "down"
    /\ sdepth' = 1
    /\ snow' = 0
    /\ sctx' = NoCtx
    /\ sres' = NoOutcome
    /\ shout' = NoOutcome
    /\ stin' = NoOutcome
    /\ stout' = NoOutcome
    /\ sfaultAt' = "none"
    /\ sentered' = FALSE
    /\ semitted' = <<>>
    /\ sauth' = "none"
    /\ UNCHANGED <<srvInstall, srvTimeout, srvAlive, srvServed, slog>>

\* the interceptor at sdepth runs up to its call of the next handler
SrvEnter ==
    /\ sphase = "down"
    /\ LET chain == serverChain(srvInstall)
           layer == chain[sdepth]
           next  == IF sdepth = Len(chain) THEN "handler" ELSE "down"
       IN
       \/ \* a fault is raised in this interceptor
          /\ layer \in SrvFaulty
          /\ sfaultAt' = layer
          /\ sres' = Outcome("nil", NilErr, "fault in " \o layer)
          /\ sphase' = "up"
          /\ sdepth' = sdepth - 1
          /\ UNCHANGED <<sctx, sauth>>
       \/ \* the auth interceptor rejects the call
          /\ layer = "auth"
          /\ sres' = Outcome("nil", StatusError("Unauthenticated", "invalid token"), "")
          /\ sphase' = "up"
          /\ sdepth' = sdepth - 1
          /\ UNCHANGED <<sctx, sfaultAt, sauth>>
       \/ \* the interceptor calls the next handler; the auth interceptor
          \* does so for a skip-listed method and after a verified token
          /\ sctx' = IF layer = "timeout"
                       THEN [made |-> TRUE,
                             dl |-> deriveDeadline(sparentDl, snow, srvTimeout),
                             released |-> FALSE]
                       ELSE sctx
          /\ sphase' = next
          /\ sdepth' = IF next = "handler" THEN sdepth ELSE sdepth + 1
          /\ IF layer = "auth" THEN sauth' \in {"skipped", "verified"}
                              ELSE sauth' = sauth
          /\ UNCHANGED <<sres, sfaultAt>>
    /\ sentered' = (sentered \/ serverChain(srvInstall)[sdepth] = "logging")
    /\ UNCHANGED <<srvInstall, srvTimeout, srvAlive, srvServed, snow, sparentDl,
                   shout, stin, stout, slog, semitted>>

\* time passes while the handler runs
SrvTick ==
    /\ sphase = "handler"
    /\ snow < MaxNow
    /\ snow' = snow + 1
    /\ UNCHANGED <<srvInstall, srvTimeout, srvAlive, srvServed, sphase, sdepth,
                   sparentDl, sctx, sres, shout, stin, stout, sfaultAt, slog,
                   sentered, semitted, sauth>>

\* a handler that calls MustGetAuthInfo(ctx) and answers: the context holds
\* an identity only when the auth interceptor verified a token
mustAuthHandler(auth) ==
    LET ctx == IF auth = "verified"
                 THEN WithAuthInfo(Ctx(TRUE, <<TokA>>, <<>>), ValidatorClaims(TokA))
                 ELSE Ctx(TRUE, <<>>, <<>>)
    IN  IF MustGetAuthInfo(ctx).panic
          THEN Outcome("nil", NilErr, "auth info not found in context")
          ELSE Outcome("resp", NilErr, "")

\* the handler returns or panics
SrvHandlerReturn ==
    /\ sphase = "handler"
    /\ \E h \in SrvHandlerOutcomes \cup {mustAuthHandler(sauth)} :
         /\ shout' = h
         /\ sres' = h
    /\ sphase' = "up"
    /\ UNCHANGED <<srvInstall, srvTimeout, srvAlive, srvServed, sdepth, snow,
                   sparentDl, sctx, stin, stout, sfaultAt, slog, sentered, semitted,
                   sauth>>

\* the call came back to the interceptor at sdepth, which returns or unwinds;
\* below the first interceptor the caller is answered, or the panic ends the
\* process
SrvLeave ==
    /\ sphase = "up"
    /\ IF sdepth = 0 THEN
          /\ sphase' = "done"
          /\ srvAlive' = (sres.pv = "")
          /\ srvServed' = srvServed + 1
          /\ slog' = (IF slog = <<>> THEN <<>> ELSE <<slog[Len(slog)]>>)
                       \o <<[hout |-> shout, tout |-> stout, caller |-> sres,
                             faultAt |-> sfaultAt, ctx |-> sctx,
                             entered |-> sentered, emitted |-> semitted,
                             auth |-> sauth]>>
          /\ UNCHANGED <<sdepth, sctx, sres, stin, stout, semitted>>
       ELSE
          LET layer == serverChain(srvInstall)[sdepth] IN
          /\ sdepth' = sdepth - 1
          /\ sphase' = "up"
          /\ IF layer = "recovery" THEN
                /\ sres' = recoveryDefer(sres)
                /\ UNCHANGED <<sctx, stin, stout, semitted>>
             ELSE IF layer = "timeout" THEN
                /\ stin' = sres
                /\ sres' = timeoutReturn(sres, Expired(sctx.dl, snow))
                /\ stout' = sres'
                /\ sctx' = [sctx EXCEPT !.released = deferCancel(sres)]
                /\ UNCHANGED semitted
             ELSE IF layer = "logging" THEN
                /\ semitted' = IF sres.pv = ""
                                 THEN Append(semitted, completionRecord(sres, snow))
                                 ELSE semitted
                /\ UNCHANGED <<sres, sctx, stin, stout>>
             ELSE
                UNCHANGED <<sres, sctx, stin, stout, semitted>>
          /\ UNCHANGED <<srvAlive, srvServed, slog>>
    /\ UNCHANGED <<srvInstall, srvTimeout, snow, sparentDl, shout, sfaultAt, sentered,
                   sauth>>

NextSrv ==
    \/ SrvBegin /\ UNCHANGED <<retryVars, convVars, authVars, kafkaVars, migVars,
                               loadVars, mcVars, lockVars, clientVars, caVars, txVars, jwtVars>>
    \/ SrvEnter /\ UNCHANGED <<retryVars, convVars, authVars, kafkaVars, migVars,
                               loadVars, mcVars, lockVars, clientVars, caVars, txVars, jwtVars>>
    \/ SrvTick /\ UNCHANGED <<retryVars, convVars, authVars, kafkaVars, migVars,
                              loadVars, mcVars, lockVars, clientVars, caVars, txVars, jwtVars>>
    \/ SrvHandlerReturn /\ UNCHANGED <<retryVars, convVars, authVars, kafkaVars,
                                       migVars, loadVars, mcVars, lockVars, clientVars, caVars, txVars, jwtVars>>
    \/ SrvLeave /\ UNCHANGED <<retryVars, convVars, authVars, kafkaVars, migVars,
                               loadVars, mcVars, lockVars, clientVars, caVars, txVars, jwtVars>>

InitSpecSrv == RetryIdle /\ ConvIdle /\ AuthIdle /\ InitSrv /\ KafkaIdle /\ MigIdle /\ LoadIdle /\ McIdle /\ LockIdle /\ ClientIdle /\ CaIdle /\ TxIdle /\ JwtIdle

SpecSrv == InitSpecSrv /\ [][NextSrv]_vars

\* ------------------------------------------------------------------------
\* Kafka consumer: Consumer.Consume over one partition holding the messages
\* at offsets 0 .. MaxOffset-1, read by a kafka.Reader of a consumer group
\* ------------------------------------------------------------------------
\* CommitMessages(ctx, msg): the group's offset becomes msg.Offset + 1
commitOffset(offset) == offset + 1

InitKafka ==
    /\ kpc = "select"
    /\ kctxErr = NilErr
    /\ knext = 0
    /\ kmsg = -1
    /\ kcommitted = 0
    /\ ksucceeded = {}
    /\ kfailed = {}
    /\ kret = NilErr
    /\ krestarts = 0
    /\ kfetchCtx = NilErr

\* select { case <-ctx.Done(): return ctx.Err(); default: ... }
KSelect ==
    /\ kpc = "select"
    /\ IF kctxErr # NilErr
         THEN kpc' = "returned" /\ kret' = kctxErr
         ELSE kpc' = "fetch" /\ kret' = kret
    /\ UNCHANGED <<kctxErr, knext, kmsg, kcommitted, ksucceeded, kfailed, krestarts,
                   kfetchCtx>>

\* msg, err := c.reader.FetchMessage(ctx): the next message of the reader,
\* or an error; on an error Consume returns if the context is done and
\* goes round the loop otherwise.  The reader selects between ctx.Done()
\* and its message queue, so with both ready it may deliver the message
\* although the context is done.
KFetch ==
    /\ kpc = "fetch"
    /\ \/ /\ knext < MaxOffset
          /\ kmsg' = knext
          /\ knext' = knext + 1
          /\ kfetchCtx' = kctxErr
          /\ kpc' = "handle"
          /\ kret' = kret
       \/ /\ kctxErr # NilErr
          /\ kpc' = "returned"
          /\ kret' = kctxErr
          /\ UNCHANGED <<knext, kmsg, kfetchCtx>>
       \/ /\ kctxErr = NilErr
          /\ kpc' = "select"
          /\ UNCHANGED <<knext, kmsg, kret, kfetchCtx>>
    /\ UNCHANGED <<kctxErr, kcommitted, ksucceeded, kfailed, krestarts>>

\* err := handler(ctx, msg): on an error the message is logged and the loop
\* continues without a commit
KHandle ==
    /\ kpc = "handle"
    /\ \/ /\ ksucceeded' = ksucceeded \cup {kmsg}
          /\ kpc' = "commit"
          /\ UNCHANGED kfailed
       \/ /\ kfailed' = kfailed \cup {kmsg}
          /\ kpc' = "select"
          /\ UNCHANGED ksucceeded
    /\ UNCHANGED <<kctxErr, knext, kmsg, kcommitted, kret, krestarts, kfetchCtx>>

\* c.reader.CommitMessages(ctx, msg): a failure is only logged
KCommit ==
    /\ kpc = "commit"
    /\ \/ kcommitted' = commitOffset(kmsg)
       \/ UNCHANGED kcommitted
    /\ kpc' = "select"
    /\ UNCHANGED <<kctxErr, knext, kmsg, ksucceeded, kfailed, kret, krestarts,
                   kfetchCtx>>

\* the caller cancels the context
KCancel ==
    /\ kpc \in {"select", "fetch", "handle", "commit"}
    /\ kctxErr = NilErr
    /\ kctxErr' = ContextCanceled
    /\ UNCHANGED <<kpc, knext, kmsg, kcommitted, ksucceeded, kfailed, kret, krestarts,
                   kfetchCtx>>

\* after Consume returned the service starts again: NewConsumer gives a
\* reader of the same group, which starts at the committed offset
KRestart ==
    /\ kpc = "returned"
    /\ krestarts < MaxRestarts
    /\ krestarts' = krestarts + 1
    /\ knext' = kcommitted
    /\ kmsg' = -1
    /\ kfetchCtx' = NilErr
    /\ kctxErr' = NilErr
    /\ kret' = NilErr
    /\ kpc' = "select"
    /\ UNCHANGED <<kcommitted, ksucceeded, kfailed>>

NextKafka ==
    \/ KSelect /\ UNCHANGED <<retryVars, convVars, authVars, srvVars, migVars,
                              loadVars, mcVars, lockVars, clientVars, caVars, txVars, jwtVars>>
    \/ KFetch /\ UNCHANGED <<retryVars, convVars, authVars, srvVars, migVars, loadVars,
                             mcVars, lockVars, clientVars, caVars, txVars, jwtVars>>
    \/ KHandle /\ UNCHANGED <<retryVars, convVars, authVars, srvVars, migVars,
                              loadVars, mcVars, lockVars, clientVars, caVars, txVars, jwtVars>>
    \/ KCommit /\ UNCHANGED <<retryVars, convVars, authVars, srvVars, migVars,
                              loadVars, mcVars, lockVars, clientVars, caVars, txVars, jwtVars>>
    \/ KCancel /\ UNCHANGED <<retryVars, convVars, authVars, srvVars, migVars,
                              loadVars, mcVars, lockVars, clientVars, caVars, txVars, jwtVars>>
    \/ KRestart /\ UNCHANGED <<retryVars, convVars, authVars, srvVars, migVars,
                               loadVars, mcVars, lockVars, clientVars, caVars, txVars, jwtVars>>

InitSpecKafka == RetryIdle /\ ConvIdle /\ AuthIdle /\ SrvIdle /\ InitKafka /\ MigIdle /\ LoadIdle /\ McIdle /\ LockIdle /\ ClientIdle /\ CaIdle /\ TxIdle /\ JwtIdle

SpecKafka == InitSpecKafka /\ [][NextKafka]_vars

\* ------------------------------------------------------------------------
\* postgres.RunMigrations over a database whose schema_migrations row is
\* (mver, mdirty); mver = -1 when no migration was ever applied
\* ------------------------------------------------------------------------
\* fmt.Errorf(prefix + ": %w", err)
Errorf(prefix, err) == PlainError(prefix \o ": " \o err.msg)

\* mutant of checkCancelled: the context is not looked at
checkCancelled_Never(cerr) == NilErr

\* select { case <-ctx.Done(): return fmt.Errorf("migration cancelled: %w",
\* ctx.Err()); default: }
checkCancelled(cerr) ==
    IF cerr # NilErr THEN Errorf("migration cancelled", cerr) ELSE NilErr

\* what the environment makes fail during one run
MigEnvs ==
    [absOk : BOOLEAN, newOk : BOOLEAN, verErr : BOOLEAN, forceErr : BOOLEAN,
     rbErr : BOOLEAN, upErr : BOOLEAN]

InitMig ==
    /\ mpc = "start"
    /\ mctxErr \in {NilErr, ContextCanceled, ContextDeadlineExceeded}
    /\ mctxAtCall = mctxErr
    /\ menv \in MigEnvs
    /\ mver \in (-1)..MigLatest
    /\ mdirty \in (IF mver = -1 THEN {FALSE} ELSE BOOLEAN)
    /\ mwasDirty = FALSE
    /\ mops = <<>>
    /\ mret = NilErr
    /\ mclosed = FALSE

\* context.WithTimeout, filepath.Abs, migrate.New and the deferred m.Close
MigStart ==
    /\ mpc = "start"
    /\ IF ~menv.absOk THEN
          /\ mret' = Errorf("resolve migrations path", PlainError("abs"))
          /\ mpc' = "done"
       ELSE IF ~menv.newOk THEN
          /\ mret' = Errorf("init migrator", PlainError("new"))
          /\ mpc' = "done"
       ELSE
          /\ mpc' = "check1"
          /\ UNCHANGED mret
    /\ UNCHANGED <<mctxErr, mctxAtCall, menv, mver, mdirty, mwasDirty, mops, mclosed>>

\* one of the two checks for cancellation
MigCheck ==
    /\ mpc \in {"check1", "check2"}
    /\ IF checkCancelled(mctxErr) # NilErr THEN
          /\ mret' = checkCancelled(mctxErr)
          /\ mpc' = "done"
          /\ mclosed' = TRUE
       ELSE
          /\ mpc' = (IF mpc = "check1" THEN "version" ELSE "up")
          /\ UNCHANGED <<mret, mclosed>>
    /\ UNCHANGED <<mctxErr, mctxAtCall, menv, mver, mdirty, mwasDirty, mops>>

\* m.Version() and the fix of a dirty state: Force(version), then
\* Migrate(version-1) whose failure is only logged
MigVersion ==
    /\ mpc = "version"
    /\ IF ~menv.verErr /\ mver # -1 /\ mdirty THEN
          /\ mwasDirty' = TRUE
          /\ IF menv.forceErr THEN
                /\ mops' = Append(mops, "Force")
                /\ mret' = Errorf("force migration version", PlainError("force"))
                /\ mpc' = "done"
                /\ mclosed' = TRUE
                /\ UNCHANGED <<mver, mdirty>>
             ELSE
                /\ mdirty' = FALSE
                /\ mops' = IF mver > 0 THEN mops \o <<"Force", "Migrate">>
                                       ELSE Append(mops, "Force")
                /\ mver' = IF mver > 0 /\ ~menv.rbErr THEN mver - 1 ELSE mver
                /\ mpc' = "check2"
                /\ UNCHANGED <<mret, mclosed>>
       ELSE IF menv.verErr THEN
          /\ mret' = Errorf("read migration version", PlainError("version"))
          /\ mpc' = "done"
          /\ mclosed' = TRUE
          /\ UNCHANGED <<mver, mdirty, mwasDirty, mops>>
       ELSE
          /\ mpc' = "check2"
          /\ UNCHANGED <<mver, mdirty, mwasDirty, mops, mret, mclosed>>
    /\ UNCHANGED <<mctxErr, mctxAtCall, menv>>

\* m.Up(): ErrNoChange counts as success
MigUp ==
    /\ mpc = "up"
    /\ mops' = Append(mops, "Up")
    /\ IF mdirty \/ menv.upErr THEN
          /\ mret' = Errorf("apply migrations", PlainError("up"))
          /\ UNCHANGED mver
       ELSE
          /\ mret' = NilErr
          /\ mver' = MigLatest
    /\ mpc' = "done"
    /\ mclosed' = TRUE
    /\ UNCHANGED <<mctxErr, mctxAtCall, menv, mdirty, mwasDirty>>

\* the caller cancels, or the 30 s of the derived context run out
MigCancel ==
    /\ mpc \in {"start", "check1", "version", "check2", "up"}
    /\ mctxErr = NilErr
    /\ mctxErr' \in {ContextCanceled, ContextDeadlineExceeded}
    /\ UNCHANGED <<mpc, mctxAtCall, menv, mver, mdirty, mwasDirty, mops, mret, mclosed>>

NextMig ==
    \/ MigStart /\ UNCHANGED <<retryVars, convVars, authVars, srvVars, kafkaVars,
                               loadVars, mcVars, lockVars, clientVars, caVars, txVars, jwtVars>>
    \/ MigCheck /\ UNCHANGED <<retryVars, convVars, authVars, srvVars, kafkaVars,
                               loadVars, mcVars, lockVars, clientVars, caVars, txVars, jwtVars>>
    \/ MigVersion /\ UNCHANGED <<retryVars, convVars, authVars, srvVars, kafkaVars,
                                 loadVars, mcVars, lockVars, clientVars, caVars, txVars, jwtVars>>
    \/ MigUp /\ UNCHANGED <<retryVars, convVars, authVars, srvVars, kafkaVars,
                            loadVars, mcVars, lockVars, clientVars, caVars, txVars, jwtVars>>
    \/ MigCancel /\ UNCHANGED <<retryVars, convVars, authVars, srvVars, kafkaVars,
                                loadVars, mcVars, lockVars, clientVars, caVars, txVars, jwtVars>>

InitSpecMig == RetryIdle /\ ConvIdle /\ AuthIdle /\ SrvIdle /\ KafkaIdle /\ InitMig /\ LoadIdle /\ McIdle /\ LockIdle /\ ClientIdle /\ CaIdle /\ TxIdle /\ JwtIdle

SpecMig == InitSpecMig /\ [][NextMig]_vars

\* ------------------------------------------------------------------------
\* config.Load: a YAML file, then environment variables and env-default
\* tags, over a configuration struct of tagged string and int fields
\* ------------------------------------------------------------------------
\* the zero value of a field, written as the text of its value
ZeroValue(kind) == IF kind = "int" THEN "0" ELSE ""

\* strconv.ParseInt(value, 10, 64) succeeds
ParsesAsInt(value) == value \in {"5", "7", "9"}

\* setField: the error of the conversion, NilErr when the field was set
setFieldErr(kind, value) ==
    IF kind = "int" /\ ~ParsesAsInt(value)
      THEN PlainError("strconv.ParseInt: parsing \"" \o value \o "\": invalid syntax")
      ELSE NilErr

\* value := os.Getenv(envTag); if value == "" { value = defaultVal }
envOrDefault(envval, defaultVal) == IF envval = "" THEN defaultVal ELSE envval

\* one field of the struct: whether it has an env tag, its env-default tag,
\* the value of its environment variable ("" when unset), the value the
\* YAML file gives it ("" when the file does not mention it)
LoadFields ==
    [kind : {"string", "int"}, tagged : BOOLEAN, def : {"", "5"},
     envval : {"", "7", "x"}, yaml : {"", "9"}]

LoadFiles == {"nopath", "missing", "unreadable", "badyaml", "ok"}

\* the field after yaml.Unmarshal
AfterYaml(file, f) ==
    IF file = "ok" /\ f.yaml # "" THEN f.yaml ELSE ZeroValue(f.kind)

InitLoad ==
    /\ lpc = "read"
    /\ lfile \in LoadFiles
    /\ lfields \in UNION {[1..n -> LoadFields] : n \in 1..MaxFields}
    /\ lvals = [n \in 1..Len(lfields) |-> ZeroValue(lfields[n].kind)]
    /\ li = 1
    /\ lerr = NilErr

\* os.ReadFile and yaml.Unmarshal
LoadRead ==
    /\ lpc = "read"
    /\ IF lfile = "unreadable" THEN
          /\ lerr' = Errorf("read config file", PlainError("permission denied"))
          /\ lpc' = "done"
          /\ UNCHANGED lvals
       ELSE IF lfile = "badyaml" THEN
          /\ lerr' = Errorf("parse config file", PlainError("yaml"))
          /\ lpc' = "done"
          /\ UNCHANGED lvals
       ELSE
          /\ lvals' = [n \in 1..Len(lfields) |-> AfterYaml(lfile, lfields[n])]
          /\ lpc' = "env"
          /\ UNCHANGED lerr
    /\ UNCHANGED <<lfile, lfields, li>>

\* one iteration of the loop of processStruct
LoadField ==
    /\ lpc = "env"
    /\ li <= Len(lfields)
    /\ LET f == lfields[li]
           value == envOrDefault(f.envval, f.def)
       IN IF ~f.tagged \/ value = "" THEN
             /\ li' = li + 1
             /\ UNCHANGED <<lvals, lerr, lpc>>
          ELSE IF setFieldErr(f.kind, value) # NilErr THEN
             /\ lerr' = Errorf("load env vars",
                               Errorf("set field", setFieldErr(f.kind, value)))
             /\ lpc' = "done"
             /\ UNCHANGED <<lvals, li>>
          ELSE
             /\ lvals' = [lvals EXCEPT ![li] = value]
             /\ li' = li + 1
             /\ UNCHANGED <<lerr, lpc>>
    /\ UNCHANGED <<lfile, lfields>>

\* return &cfg, nil
LoadReturn ==
    /\ lpc = "env"
    /\ li > Len(lfields)
    /\ lpc' = "done"
    /\ UNCHANGED <<lfile, lfields, lvals, li, lerr>>

NextLoad ==
    \/ LoadRead /\ UNCHANGED <<retryVars, convVars, authVars, srvVars, kafkaVars,
                               migVars, mcVars, lockVars, clientVars, caVars, txVars, jwtVars>>
    \/ LoadField /\ UNCHANGED <<retryVars, convVars, authVars, srvVars, kafkaVars,
                                migVars, mcVars, lockVars, clientVars, caVars, txVars, jwtVars>>
    \/ LoadReturn /\ UNCHANGED <<retryVars, convVars, authVars, srvVars, kafkaVars,
                                 migVars, mcVars, lockVars, clientVars, caVars, txVars, jwtVars>>

InitSpecLoad == RetryIdle /\ ConvIdle /\ AuthIdle /\ SrvIdle /\ KafkaIdle /\ MigIdle /\ InitLoad /\ McIdle /\ LockIdle /\ ClientIdle /\ CaIdle /\ TxIdle /\ JwtIdle

SpecLoad == InitSpecLoad /\ [][NextLoad]_vars

\* ------------------------------------------------------------------------
\* MultiConsumer.Close over consumers whose Close succeeds, fails, or has
\* nothing to close (nil reader)
\* ------------------------------------------------------------------------
ConsumerKinds == {"ok", "fail", "nilreader"}

\* Consumer.Close: c.reader.Close() unless the reader is nil
consumerClose(kind) ==
    IF kind = "fail" THEN PlainError("close reader") ELSE NilErr

InitMc ==
    /\ mcpc = "loop"
    /\ mcCons \in UNION {[1..n -> ConsumerKinds] : n \in 1..MaxConsumers}
    /\ mcClosed = {}
    /\ mci = 1
    /\ mcret = NilErr

\* one iteration of: for _, c := range mc.consumers
\*   { if err := c.Close(); err != nil { return err } }
McClose ==
    /\ mcpc = "loop"
    /\ mci <= Len(mcCons)
    /\ mcClosed' = mcClosed \cup {mci}
    /\ IF consumerClose(mcCons[mci]) # NilErr THEN
          /\ mcret' = consumerClose(mcCons[mci])
          /\ mcpc' = "done"
          /\ UNCHANGED mci
       ELSE
          /\ mci' = mci + 1
          /\ UNCHANGED <<mcret, mcpc>>
    /\ UNCHANGED mcCons

\* return nil
McReturn ==
    /\ mcpc = "loop"
    /\ mci > Len(mcCons)
    /\ mcpc' = "done"
    /\ UNCHANGED <<mcCons, mcClosed, mci, mcret>>

NextMc ==
    \/ McClose /\ UNCHANGED <<retryVars, convVars, authVars, srvVars, kafkaVars,
                              migVars, loadVars, lockVars, clientVars, caVars, txVars, jwtVars>>
    \/ McReturn /\ UNCHANGED <<retryVars, convVars, authVars, srvVars, kafkaVars,
                               migVars, loadVars, lockVars, clientVars, caVars, txVars, jwtVars>>

InitSpecMc == RetryIdle /\ ConvIdle /\ AuthIdle /\ SrvIdle /\ KafkaIdle /\ MigIdle /\ LoadIdle /\ InitMc /\ LockIdle /\ ClientIdle /\ CaIdle /\ TxIdle /\ JwtIdle

SpecMc == InitSpecMc /\ [][NextMc]_vars

\* ------------------------------------------------------------------------
\* redis Client.Lock / Client.Unlock on one lock key of a redis server;
\* each client passes its own value
\* ------------------------------------------------------------------------
LockClients == {"A", "B"}

\* the value a client passes to Lock and Unlock
LockValue(c) == IF c = "A" THEN "a" ELSE "b"

\* expirations passed to Lock, in ticks; 0 means no expiry
LockExpirations == {0, 1, 2}

\* the key as the server holds it: val = "" when the key does not exist,
\* ttl = 0 when it does not expire
NoKey == [val |-> "", ttl |-> 0]

\* SET key value NX with the expiration: stores only when the key is absent
setNX(key, value, expiration) ==
    IF key.val = "" THEN [ok |-> TRUE, key |-> [val |-> value, ttl |-> expiration]]
    ELSE [ok |-> FALSE, key |-> key]

\* mutant of unlockScript: the key is deleted whatever it holds
unlockScript_NoCheck(key, value) == NoKey

\* if redis.call("get", KEYS[1]) == ARGV[1] then return redis.call("del",
\* KEYS[1]) else return 0 end
unlockScript(key, value) ==
    IF key.val # "" /\ key.val = value THEN NoKey ELSE key

NoLockOp == [op |-> "none", client |-> "", ok |-> FALSE, before |-> NoKey, after |-> NoKey]

InitLock ==
    /\ rkey = NoKey
    /\ rlast = NoLockOp
    /\ rops = 0
    /\ rexpired = {}
    /\ ron = TRUE

\* c.Lock(ctx, key, LockValue(c), expiration)
RLock ==
    /\ ron
    /\ rops < MaxOps
    /\ \E c \in LockClients, e \in LockExpirations :
         LET r == setNX(rkey, LockValue(c), e) IN
         /\ rkey' = r.key
         /\ rlast' = [op |-> "Lock", client |-> c, ok |-> r.ok,
                      before |-> rkey, after |-> r.key]
         /\ rexpired' = IF r.ok THEN rexpired \ {c} ELSE rexpired
    /\ rops' = rops + 1
    /\ UNCHANGED ron

\* c.Unlock(ctx, key, LockValue(c))
RUnlock ==
    /\ ron
    /\ rops < MaxOps
    /\ \E c \in LockClients :
         /\ rkey' = unlockScript(rkey, LockValue(c))
         /\ rlast' = [op |-> "Unlock", client |-> c, ok |-> TRUE,
                      before |-> rkey, after |-> rkey']
    /\ rops' = rops + 1
    /\ UNCHANGED <<rexpired, ron>>

\* time passes on the server: a key whose time is up is removed
RTick ==
    /\ ron
    /\ rkey.val # ""
    /\ rkey.ttl > 0
    /\ IF rkey.ttl = 1
         THEN /\ rkey' = NoKey
              /\ rexpired' = rexpired \cup {c \in LockClients : LockValue(c) = rkey.val}
         ELSE /\ rkey' = [rkey EXCEPT !.ttl = rkey.ttl - 1]
              /\ UNCHANGED rexpired
    /\ UNCHANGED <<rlast, rops, ron>>

NextLock ==
    \/ RLock /\ UNCHANGED <<retryVars, convVars, authVars, srvVars, kafkaVars, migVars,
                            loadVars, mcVars, clientVars, caVars, txVars, jwtVars>>
    \/ RUnlock /\ UNCHANGED <<retryVars, convVars, authVars, srvVars, kafkaVars,
                              migVars, loadVars, mcVars, clientVars, caVars, txVars, jwtVars>>
    \/ RTick /\ UNCHANGED <<retryVars, convVars, authVars, srvVars, kafkaVars, migVars,
                            loadVars, mcVars, clientVars, caVars, txVars, jwtVars>>

InitSpecLock == RetryIdle /\ ConvIdle /\ AuthIdle /\ SrvIdle /\ KafkaIdle /\ MigIdle /\ LoadIdle /\ McIdle /\ InitLock /\ ClientIdle /\ CaIdle /\ TxIdle /\ JwtIdle

SpecLock == InitSpecLock /\ [][NextLock]_vars

\* ------------------------------------------------------------------------
\* The client chain of NewClient: clientLoggingInterceptor around
\* retryInterceptor around the call
\* ------------------------------------------------------------------------
\* logger.Debug("gRPC client call started", ...)
startRecord ==
    [kind |-> "started", level |-> "debug", code |-> "", duration |-> 0, err |-> NilErr]

\* mutant of clientCompletion: every call is logged as completed
clientCompletion_AlwaysOK(err, duration) ==
    [kind |-> "completed", level |-> "debug", code |-> "OK",
     duration |-> duration, err |-> NilErr]

\* code := codes.OK, or status.Code(err) when err != nil; logger.Debug for
\* OK, logger.Warn with the code and the error otherwise
clientCompletion(err, duration) ==
    LET code == IF err # NilErr THEN StatusCode(err) ELSE "OK" IN
    [kind |-> "completed", level |-> IF code = "OK" THEN "debug" ELSE "warn",
     code |-> code, duration |-> duration, err |-> err]

InitClient ==
    /\ clpc = "start"
    /\ clrecs = <<>>
    /\ clstart = 0
    /\ clret = NilErr

\* clientLoggingInterceptor up to its call of invoker, which is the retry
\* interceptor: start := time.Now() and the start record
CliBegin ==
    /\ clpc = "start"
    /\ clstart' = elapsed
    /\ clrecs' = Append(clrecs, startRecord)
    /\ clpc' = "inner"
    /\ UNCHANGED clret

\* the retry interceptor returned: duration := time.Since(start), the
\* completion record, return err
CliEnd ==
    /\ clpc = "inner"
    /\ pc = "done"
    /\ clrecs' = Append(clrecs, clientCompletion(ret, elapsed - clstart))
    /\ clret' = ret
    /\ clpc' = "done"
    /\ UNCHANGED clstart

\* a step of the retry interceptor while the logging interceptor waits for it
CliInner(step) ==
    /\ clpc = "inner"
    /\ step
    /\ UNCHANGED <<clpc, clrecs, clstart, clret>>

NextClient ==
    \/ CliBegin /\ UNCHANGED <<retryVars, convVars, authVars, srvVars, kafkaVars,
                               migVars, loadVars, mcVars, lockVars, caVars, txVars, jwtVars>>
    \/ CliEnd /\ UNCHANGED <<retryVars, convVars, authVars, srvVars, kafkaVars,
                             migVars, loadVars, mcVars, lockVars, caVars, txVars, jwtVars>>
    \/ CliInner(RetryCall) /\ UNCHANGED <<convVars, authVars, srvVars, kafkaVars,
                                          migVars, loadVars, mcVars, lockVars, caVars, txVars, jwtVars>>
    \/ CliInner(Invoke) /\ UNCHANGED <<convVars, authVars, srvVars, kafkaVars, migVars,
                                       loadVars, mcVars, lockVars, caVars, txVars, jwtVars>>
    \/ CliInner(SelectDone) /\ UNCHANGED <<convVars, authVars, srvVars, kafkaVars,
                                           migVars, loadVars, mcVars, lockVars, caVars, txVars, jwtVars>>
    \/ CliInner(SelectTimer) /\ UNCHANGED <<convVars, authVars, srvVars, kafkaVars,
                                            migVars, loadVars, mcVars, lockVars, caVars, txVars, jwtVars>>
    \/ CliInner(Tick) /\ UNCHANGED <<convVars, authVars, srvVars, kafkaVars, migVars,
                                     loadVars, mcVars, lockVars, caVars, txVars, jwtVars>>
    \/ CliInner(Cancel) /\ UNCHANGED <<convVars, authVars, srvVars, kafkaVars, migVars,
                                       loadVars, mcVars, lockVars, caVars, txVars, jwtVars>>

InitSpecClient == InitRetry /\ ConvIdle /\ AuthIdle /\ SrvIdle /\ KafkaIdle /\ MigIdle /\ LoadIdle /\ McIdle /\ LockIdle /\ InitClient /\ CaIdle /\ TxIdle /\ JwtIdle

SpecClient == InitSpecClient /\ [][NextClient]_vars

\* ------------------------------------------------------------------------
\* MultiConsumer.ConsumeAll: one goroutine per consumer sends the result of
\* Consume on errCh; ConsumeAll waits for the first result or for ctx.Done()
\* ------------------------------------------------------------------------
\* mutant of errChCap: a channel of one slot
errChCap_One(n) == 1

\* errCh := make(chan error, len(mc.consumers))
errChCap(n) == n

InitCa ==
    /\ capc = "spawn"
    /\ caN \in 0..MaxConsumers
    /\ cai = 1
    /\ cag = [k \in 1..caN |-> "none"]
    /\ caCh = <<>>
    /\ caCtx = NilErr
    /\ caret = NilErr

\* one iteration of: for _, c := range mc.consumers { go func(...){...}(c) }
CaGo ==
    /\ capc = "spawn"
    /\ IF cai <= caN
         THEN /\ cag' = [cag EXCEPT ![cai] = "consuming"]
              /\ cai' = cai + 1
              /\ UNCHANGED capc
         ELSE /\ capc' = "select"
              /\ UNCHANGED <<cag, cai>>
    /\ UNCHANGED <<caN, caCh, caCtx, caret>>

\* consumer.Consume(ctx, handler) returns in a goroutine: Consume returns
\* only with a done context, and returns ctx.Err()
CaConsumeReturn ==
    /\ \E k \in 1..caN :
          /\ cag[k] = "consuming"
          /\ caCtx # NilErr
          /\ cag' = [cag EXCEPT ![k] = "sending"]
    /\ UNCHANGED <<capc, caN, cai, caCh, caCtx, caret>>

\* errCh <- ...: the send proceeds when the channel has a free slot
CaSend ==
    /\ \E k \in 1..caN :
          /\ cag[k] = "sending"
          /\ Len(caCh) < errChCap(caN)
          /\ caCh' = Append(caCh, caCtx)
          /\ cag' = [cag EXCEPT ![k] = "done"]
    /\ UNCHANGED <<capc, caN, cai, caCtx, caret>>

\* select { case err := <-errCh: return err }
CaRecv ==
    /\ capc = "select"
    /\ caCh # <<>>
    /\ caret' = Head(caCh)
    /\ caCh' = Tail(caCh)
    /\ capc' = "returned"
    /\ UNCHANGED <<caN, cai, cag, caCtx>>

\* select { case <-ctx.Done(): return ctx.Err() }
CaCtxDone ==
    /\ capc = "select"
    /\ caCtx # NilErr
    /\ caret' = caCtx
    /\ capc' = "returned"
    /\ UNCHANGED <<caN, cai, cag, caCh, caCtx>>

\* the caller's context is cancelled or its deadline passes
CaCancel ==
    /\ caCtx = NilErr
    /\ caCtx' \in {ContextCanceled, ContextDeadlineExceeded}
    /\ UNCHANGED <<capc, caN, cai, cag, caCh, caret>>

NextCa ==
    \/ CaGo /\ UNCHANGED <<retryVars, convVars, authVars, srvVars, kafkaVars, migVars,
                           loadVars, mcVars, lockVars, clientVars, txVars, jwtVars>>
    \/ CaConsumeReturn /\ UNCHANGED <<retryVars, convVars, authVars, srvVars,
                                      kafkaVars, migVars, loadVars, mcVars, lockVars, clientVars, txVars, jwtVars>>
    \/ CaSend /\ UNCHANGED <<retryVars, convVars, authVars, srvVars, kafkaVars,
                             migVars, loadVars, mcVars, lockVars, clientVars, txVars, jwtVars>>
    \/ CaRecv /\ UNCHANGED <<retryVars, convVars, authVars, srvVars, kafkaVars,
                             migVars, loadVars, mcVars, lockVars, clientVars, txVars, jwtVars>>
    \/ CaCtxDone /\ UNCHANGED <<retryVars, convVars, authVars, srvVars, kafkaVars,
                                migVars, loadVars, mcVars, lockVars, clientVars, txVars, jwtVars>>
    \/ CaCancel /\ UNCHANGED <<retryVars, convVars, authVars, srvVars, kafkaVars,
                               migVars, loadVars, mcVars, lockVars, clientVars, txVars, jwtVars>>

InitSpecCa == RetryIdle /\ ConvIdle /\ AuthIdle /\ SrvIdle /\ KafkaIdle /\ MigIdle /\ LoadIdle /\ McIdle /\ LockIdle /\ ClientIdle /\ InitCa /\ TxIdle /\ JwtIdle

SpecCa == InitSpecCa /\ [][NextCa]_vars

\* ------------------------------------------------------------------------
\* postgres Pool.WithTx over a database whose Begin, Commit and Rollback
\* succeed or fail, and a function fn that returns nil, returns an error
\* or panics
\* ------------------------------------------------------------------------
TxFnOutcomes ==
    {[kind |-> "return", err |-> NilErr, pv |-> ""],
     [kind |-> "return", err |-> PlainError("fn failed"), pv |-> ""],
     [kind |-> "return", err |-> StatusError("NotFound", "no row"), pv |-> ""],
     [kind |-> "panic", err |-> NilErr, pv |-> "boom"]}

TxDbErrors == {NilErr, PlainError("conn closed"), ContextCanceled}

TxEnvs == [begin : TxDbErrors, fn : TxFnOutcomes, rollback : TxDbErrors, commit : TxDbErrors]

\* mutant of rollbackReturn: a failed rollback replaces fn's error
rollbackReturn_RollbackError(err, rbErr) ==
    IF rbErr # NilErr THEN rbErr ELSE err

\* if rbErr := tx.Rollback(ctx); rbErr != nil { logger.Error(...) }; return err
rollbackReturn(err, rbErr) == err

InitTx ==
    /\ txpc = "begin"
    /\ txenv \in TxEnvs
    /\ txops = <<>>
    /\ txret = NilErr
    /\ txraised = ""

\* tx, err := p.Begin(ctx); if err != nil { return fmt.Errorf("begin tx: %w", err) }
TxBegin ==
    /\ txpc = "begin"
    /\ IF txenv.begin # NilErr
         THEN txpc' = "done" /\ txret' = Errorf("begin tx", txenv.begin)
         ELSE txpc' = "fn" /\ txret' = txret
    /\ UNCHANGED <<txenv, txops, txraised>>

\* fn(tx) runs: it returns nil, returns an error, or panics
TxFn ==
    /\ txpc = "fn"
    /\ txpc' = (IF txenv.fn.kind = "panic" THEN "recover"
                ELSE IF txenv.fn.err # NilErr THEN "rollback" ELSE "commit")
    /\ UNCHANGED <<txenv, txops, txret, txraised>>

\* fn returned an error: tx.Rollback(ctx), its failure is only logged, and
\* fn's error is returned
TxRollback ==
    /\ txpc = "rollback"
    /\ txops' = Append(txops, "rollback")
    /\ txret' = rollbackReturn(txenv.fn.err, txenv.rollback)
    /\ txpc' = "done"
    /\ UNCHANGED <<txenv, txraised>>

\* fn returned nil: tx.Commit(ctx), a failure is wrapped and returned
TxCommit ==
    /\ txpc = "commit"
    /\ txops' = Append(txops, "commit")
    /\ txret' = (IF txenv.commit # NilErr THEN Errorf("commit tx", txenv.commit)
                 ELSE NilErr)
    /\ txpc' = "done"
    /\ UNCHANGED <<txenv, txraised>>

\* the deferred function after a panic of fn: _ = tx.Rollback(ctx); panic(p)
TxRecover ==
    /\ txpc = "recover"
    /\ txops' = Append(txops, "rollback")
    /\ txraised' = txenv.fn.pv
    /\ txpc' = "panicked"
    /\ UNCHANGED <<txenv, txret>>

NextTx ==
    \/ TxBegin /\ UNCHANGED <<retryVars, convVars, authVars, srvVars, kafkaVars,
                              migVars, loadVars, mcVars, lockVars, clientVars, caVars, jwtVars>>
    \/ TxFn /\ UNCHANGED <<retryVars, convVars, authVars, srvVars, kafkaVars, migVars,
                           loadVars, mcVars, lockVars, clientVars, caVars, jwtVars>>
    \/ TxRollback /\ UNCHANGED <<retryVars, convVars, authVars, srvVars, kafkaVars,
                                 migVars, loadVars, mcVars, lockVars, clientVars, caVars, jwtVars>>
    \/ TxCommit /\ UNCHANGED <<retryVars, convVars, authVars, srvVars, kafkaVars,
                               migVars, loadVars, mcVars, lockVars, clientVars, caVars, jwtVars>>
    \/ TxRecover /\ UNCHANGED <<retryVars, convVars, authVars, srvVars, kafkaVars,
                                migVars, loadVars, mcVars, lockVars, clientVars, caVars, jwtVars>>

InitSpecTx == RetryIdle /\ ConvIdle /\ AuthIdle /\ SrvIdle /\ KafkaIdle /\ MigIdle /\ LoadIdle /\ McIdle /\ LockIdle /\ ClientIdle /\ CaIdle /\ InitTx /\ JwtIdle

SpecTx == InitSpecTx /\ [][NextTx]_vars

\* ------------------------------------------------------------------------
\* jwt.Manager: token pairs signed with the manager's key, validated at a
\* clock jnow that counts seconds
\* ------------------------------------------------------------------------
JwtSecret == "k1"

JwtConfigs ==
    {[accessTokenTTL |-> 1, refreshTokenTTL |-> 3],
     [accessTokenTTL |-> 2, refreshTokenTTL |-> 2]}

JwtUsers ==
    {[UserID |-> 42, Phone |-> "+77010000001", DeviceID |-> "dev-1"],
     [UserID |-> 7, Phone |-> "+77010000002", DeviceID |-> "dev-2"]}

ErrTokenExpired == PlainError("token expired")

\* generateToken(userID, phone, deviceID, ttl): HS256 over the claims with
\* ExpiresAt = now + ttl, IssuedAt = now, Issuer = m.issuer
generateToken(user, ttl, now, key) ==
    [UserID |-> user.UserID, Phone |-> user.Phone, DeviceID |-> user.DeviceID,
     exp |-> now + ttl, iat |-> now, alg |-> "HS256", key |-> key]

\* GenerateTokenPair: an access token with accessTokenTTL and a refresh
\* token with refreshTokenTTL
GenerateTokenPair(cfg, user, now) ==
    [AccessToken  |-> generateToken(user, cfg.accessTokenTTL, now, JwtSecret),
     RefreshToken |-> generateToken(user, cfg.refreshTokenTTL, now, JwtSecret),
     ExpiresAt    |-> now + cfg.accessTokenTTL]

\* Manager.Parse: jwt.ParseWithClaims with the HMAC key function; an HMAC
\* signature made with another key and a passed ExpiresAt are errors
Parse(tok, now) ==
    IF tok.alg # "HS256" THEN
        [ok |-> FALSE, err |-> PlainError("parse token: unexpected signing method")]
    ELSE IF tok.key # JwtSecret THEN
        [ok |-> FALSE, err |-> PlainError("parse token: signature is invalid")]
    ELSE IF now > tok.exp THEN
        [ok |-> FALSE, err |-> ErrTokenExpired]
    ELSE [ok |-> TRUE, err |-> NilErr]

\* ValidateAccessToken(tokenString): return m.Parse(tokenString)
JwtValidateAccessToken(tok, now) == Parse(tok, now)

\* ValidateRefreshToken(tokenString): return m.Parse(tokenString)
JwtValidateRefreshToken(tok, now) == Parse(tok, now)

\* tokens presented to the manager: those of the issued pairs, and tokens
\* made by someone else
ForgedTokens ==
    {generateToken(u, 3, 0, "other") : u \in JwtUsers}
    \cup {[generateToken(u, 3, 0, JwtSecret) EXCEPT !.alg = "RS256"] : u \in JwtUsers}

Presented ==
    {[slot |-> "access", pair |-> p, tok |-> jpairs[p].AccessToken] : p \in 1..Len(jpairs)}
    \cup {[slot |-> "refresh", pair |-> p, tok |-> jpairs[p].RefreshToken] :
             p \in 1..Len(jpairs)}
    \cup {[slot |-> "forged", pair |-> 0, tok |-> t] : t \in ForgedTokens}

NoJwtOp == [op |-> "none", slot |-> "", pair |-> 0, ok |-> FALSE, err |-> NilErr]

InitJwt ==
    /\ jcfg \in JwtConfigs
    /\ jnow = 0
    /\ jpairs = <<>>
    /\ jlast = NoJwtOp

\* a login: GenerateTokenPair(userID, phone, deviceID)
JGenerate ==
    /\ Len(jpairs) < MaxPairs
    /\ \E u \in JwtUsers :
          jpairs' = Append(jpairs, GenerateTokenPair(jcfg, u, jnow))
    /\ jlast' = [op |-> "GenerateTokenPair", slot |-> "", pair |-> Len(jpairs) + 1,
                 ok |-> TRUE, err |-> NilErr]
    /\ UNCHANGED <<jcfg, jnow>>

\* a call is authenticated: ValidateAccessToken(tokenString)
JValidateAccess ==
    /\ \E t \in Presented :
          jlast' = [op |-> "ValidateAccessToken", slot |-> t.slot, pair |-> t.pair,
                    ok |-> JwtValidateAccessToken(t.tok, jnow).ok,
                    err |-> JwtValidateAccessToken(t.tok, jnow).err]
    /\ UNCHANGED <<jcfg, jnow, jpairs>>

\* ValidateRefreshToken(tokenString)
JValidateRefresh ==
    /\ \E t \in Presented :
          jlast' = [op |-> "ValidateRefreshToken", slot |-> t.slot, pair |-> t.pair,
                    ok |-> JwtValidateRefreshToken(t.tok, jnow).ok,
                    err |-> JwtValidateRefreshToken(t.tok, jnow).err]
    /\ UNCHANGED <<jcfg, jnow, jpairs>>

\* Refresh(refreshToken): ValidateRefreshToken, then GenerateTokenPair with
\* the claims of the token
JRefresh ==
    /\ Len(jpairs) < MaxPairs
    /\ \E t \in Presented :
          LET v == JwtValidateRefreshToken(t.tok, jnow) IN
          /\ jlast' = [op |-> "Refresh", slot |-> t.slot, pair |-> t.pair,
                       ok |-> v.ok, err |-> v.err]
          /\ jpairs' = IF v.ok
                         THEN Append(jpairs,
                                GenerateTokenPair(jcfg,
                                   [UserID |-> t.tok.UserID, Phone |-> t.tok.Phone,
                                    DeviceID |-> t.tok.DeviceID], jnow))
                         ELSE jpairs
    /\ UNCHANGED <<jcfg, jnow>>

\* a second passes
JTick ==
    /\ jnow < MaxNow
    /\ jnow' = jnow + 1
    /\ UNCHANGED <<jcfg, jpairs, jlast>>

NextJwt ==
    \/ JGenerate /\ UNCHANGED <<retryVars, convVars, authVars, srvVars, kafkaVars,
                                migVars, loadVars, mcVars, lockVars, clientVars, caVars, txVars>>
    \/ JValidateAccess /\ UNCHANGED <<retryVars, convVars, authVars, srvVars,
                                      kafkaVars, migVars, loadVars, mcVars, lockVars, clientVars, caVars, txVars>>
    \/ JValidateRefresh /\ UNCHANGED <<retryVars, convVars, authVars, srvVars,
                                       kafkaVars, migVars, loadVars, mcVars, lockVars, clientVars, caVars, txVars>>
    \/ JRefresh /\ UNCHANGED <<retryVars, convVars, authVars, srvVars, kafkaVars,
                               migVars, loadVars, mcVars, lockVars, clientVars, caVars, txVars>>
    \/ JTick /\ UNCHANGED <<retryVars, convVars, authVars, srvVars, kafkaVars, migVars,
                            loadVars, mcVars, lockVars, clientVars, caVars, txVars>>

InitSpecJwt == RetryIdle /\ ConvIdle /\ AuthIdle /\ SrvIdle /\ KafkaIdle /\ MigIdle /\ LoadIdle /\ McIdle /\ LockIdle /\ ClientIdle /\ CaIdle /\ TxIdle /\ InitJwt

SpecJwt == InitSpecJwt /\ [][NextJwt]_vars

\* ------------------------------------------------------------------------
\* Properties of retryInterceptor
\* ------------------------------------------------------------------------
RetryableCodes == {"Unavailable", "ResourceExhausted", "Aborted", "Internal"}

IsFailure(e, codeset) == e # NilErr /\ StatusCode(e) \in codeset

\* s is k >= 0 Unavailable failures followed by one success
UnavailableThenSuccess(s) ==
    /\ Len(s) >= 1
    /\ s[Len(s)] = NilErr
    /\ \A j \in 1..(Len(s) - 1) : IsFailure(s[j], {"Unavailable"})

AllFailures(s, codeset) == \A j \in 1..Len(s) : IsFailure(s[j], codeset)

\* C1: with a live context, k <= N Unavailable failures followed by a success
\* make the interceptor return nil after exactly k+1 invocations: it neither
\* gives up before the success (a call that ended uncancelled after only
\* Unavailable failures has used all N+1 attempts) nor invokes the call again
\* after it (a success is always the last invocation, and the call is over).
C1_RetryUntilSuccess ==
    /\ UnavailableThenSuccess(calls) =>
          /\ pc = "done"
          /\ ret = NilErr
          /\ Len(calls) <= maxRetries + 1
    /\ \A j \in 1..(Len(calls) - 1) : calls[j] # NilErr
    /\ (pc = "done" /\ ctxErr = NilErr /\ maxRetries >= 0
          /\ AllFailures(calls, {"Unavailable"}))
       => Len(calls) = maxRetries + 1

C1_Witness ==
    /\ pc = "done"
    /\ ctxErr = NilErr
    /\ maxRetries = 2
    /\ Len(calls) = 3
    /\ UnavailableThenSuccess(calls)
    /\ ret = NilErr

\* C2: an invocation that fails with a code outside the retryable set ends
\* the call at once: it is the last invocation, the interceptor has returned
\* that very error, and no backoff wait was started after it (one wait per
\* earlier attempt only), however many retries remain.
C2_FailFast ==
    \A j \in 1..Len(calls) :
        IsFailure(calls[j], GrpcCodes \ RetryableCodes) =>
            /\ j = Len(calls)
            /\ pc = "done"
            /\ ret = calls[j]
            /\ Len(waits) = j - 1

C2_Witness ==
    /\ pc = "done"
    /\ maxRetries >= 2
    /\ Len(calls) = 1
    /\ calls[1] = StatusError("InvalidArgument", "e1")
    /\ ret = calls[1]
    /\ waits = <<>>

\* C3: with a live context and N >= 0, when every invocation fails with a
\* retryable code the interceptor ends after exactly N+1 invocations and N
\* waits and returns the error of invocation N+1 (code and message).
C3_Exhausted ==
    (pc = "done" /\ ctxErr = NilErr /\ maxRetries >= 0
        /\ AllFailures(calls, RetryableCodes))
    => /\ Len(calls) = maxRetries + 1
       /\ Len(waits) = maxRetries
       /\ ret = calls[maxRetries + 1]

C3_Witness ==
    /\ pc = "done"
    /\ ctxErr = NilErr
    /\ maxRetries = 2
    /\ Len(calls) = 3
    /\ AllFailures(calls, RetryableCodes)
    /\ calls[1] # calls[3]
    /\ calls[2] # calls[3]
    /\ ret = calls[3]

\* C4: once the context is done before or during a backoff wait, the wait
\* never ends with another invocation: cancellation wins over the timer.
C4_CancelWins ==
    [][(pc = "wait" /\ ctxErr # NilErr) => pc' # "invoke"]_vars

\* C5: for W >= 0 the wait after the failed attempt i is the product
\* W*(i+1) itself (the int64 product does not wrap), the waits increase
\* strictly for W > 0, and a call that succeeded after k retryable failures
\* has spent at least the sum of its waits waiting.
C5_LinearBackoff ==
    ~DurIsNeg(waitTime) =>
        /\ \A j \in 1..Len(waits) :
              /\ waits[j] = DurMulSmall(waitTime, j)
              /\ ~DurMulOverflows(waitTime, j)
              /\ (waitTime # DurZero /\ j > 1) => DurLess(waits[j-1], waits[j])
        /\ (pc = "done" /\ ret = NilErr /\ waitTime \in {DurOfNat(1), DurOfNat(2)})
              => elapsed >= (waitTime[1] * Len(waits) * (Len(waits) + 1)) \div 2

\* C6: the call is invoked at most N+1 times, and a further invocation is
\* reached only from a wait that followed a retryable failure, whose timer
\* ran out and during which the context was not cancelled.
C6_BoundedAttempts ==
    [][/\ Len(calls') <= (IF maxRetries >= 0 THEN maxRetries + 1 ELSE 0)
       /\ (pc = "wait" /\ pc' = "invoke") =>
             /\ IsFailure(calls[Len(calls)], RetryableCodes)
             /\ timer = 0
             /\ ctxErr = NilErr]_vars

\* ------------------------------------------------------------------------
\* Properties of ConvertConnectToGRPCError
\* ------------------------------------------------------------------------
\* the table of the 13 named codes: Connect code, same-named gRPC code
NamedCodes ==
    {<<"CodeNotFound", "NotFound">>, <<"CodeInvalidArgument", "InvalidArgument">>,
     <<"CodeAlreadyExists", "AlreadyExists">>,
     <<"CodePermissionDenied", "PermissionDenied">>,
     <<"CodeUnauthenticated", "Unauthenticated">>,
     <<"CodeResourceExhausted", "ResourceExhausted">>,
     <<"CodeFailedPrecondition", "FailedPrecondition">>, <<"CodeAborted", "Aborted">>,
     <<"CodeOutOfRange", "OutOfRange">>, <<"CodeUnimplemented", "Unimplemented">>,
     <<"CodeInternal", "Internal">>, <<"CodeUnavailable", "Unavailable">>,
     <<"CodeDataLoss", "DataLoss">>}

IsNamedConnectError(e) ==
    e.kind = "connect" /\ \E p \in NamedCodes : p[1] = e.code

Converted == couts # <<>>

\* C7: a Connect error with one of the 13 named codes and message m is
\* converted to the status error with the same-named gRPC code and message m,
\* and two different named codes never give the same gRPC code.
C7_NamedCodes ==
    /\ (Converted /\ IsNamedConnectError(cin)) =>
          \E p \in NamedCodes :
              /\ p[1] = cin.code
              /\ couts[1] = [kind |-> "status", code |-> p[2], msg |-> cin.msg]
    /\ \A p, q \in NamedCodes :
          p[1] # q[1] => grpcCodeOf(p[1]) # grpcCodeOf(q[1])

C7_Witness ==
    /\ Converted
    /\ cin = ConnectError("CodeUnauthenticated", "custom error message")
    /\ couts[1] = [kind |-> "status", code |-> "Unauthenticated",
                   msg |-> "custom error message"]

\* C8: any other non-nil error (a generic error, a Connect error with the
\* code Canceled, Unknown, DeadlineExceeded or an unlisted value) is converted
\* to a status error with code Unknown that carries the error's message: the
\* Message() of a Connect error, the Error() text of any other error.
C8_OtherErrors ==
    (Converted /\ cin # NilErr /\ ~IsNamedConnectError(cin)) =>
        /\ couts[1].kind = "status"
        /\ couts[1].code = "Unknown"
        /\ couts[1].msg = (IF cin.kind = "connect" THEN cin.msg ELSE ErrorText(cin))

C8_Witness ==
    /\ Converted
    /\ cin = ConnectError("CodeDeadlineExceeded", "some error")
    /\ couts[1] = [kind |-> "status", code |-> "Unknown", msg |-> "some error"]

\* C9: the result is nil exactly when the input is nil, and a non-nil result
\* is a status error whose code is not OK.
C9_NilIffNil ==
    Converted =>
        /\ (couts[1] = NilErr) <=> (cin = NilErr)
        /\ cin # NilErr => (couts[1].kind = "status" /\ couts[1].code # "OK")

C9_Witness ==
    /\ Converted
    /\ cin = NilErr
    /\ couts[1] = NilErr

\* ------------------------------------------------------------------------
\* Properties of AuthInterceptor
\* ------------------------------------------------------------------------
\* the methods listed in AuthInterceptorConfig.SkipMethods
SkipListed(m) == \E k \in 1..Len(skipMethods) : skipMethods[k] = m

\* C10: a call to a skip-listed method invokes the handler exactly once, with
\* the incoming context itself, in which GetAuthInfo finds no identity, and
\* never consults the validator, whatever the authorization metadata is; the
\* handler's outcome is the outcome of the call.
C10_SkipListed ==
    \A k \in 1..Len(alog) :
        SkipListed(alog[k].method) =>
            /\ Len(alog[k].handled) = 1
            /\ alog[k].handled[1] = alog[k].ctx
            /\ ~GetAuthInfo(alog[k].handled[1]).ok
            /\ alog[k].validated = <<>>

C10_Witness ==
    /\ Len(skipMethods) = 2
    /\ \E k \in 1..Len(alog) :
         /\ alog[k].method = skipMethods[2]
         /\ GetMetadata(alog[k].ctx, "authorization") = BearerPrefix \o TokX
         /\ Len(alog[k].handled) = 1
         /\ alog[k].validated = <<>>

\* the first value of the authorization metadata, <<>> when there is none
FirstAuthorization(ctx) ==
    IF ctx.hasMD /\ Len(ctx.incoming["authorization"]) > 0
      THEN ctx.incoming["authorization"][1]
      ELSE <<>>

\* C11: a call to a method outside the skip set whose authorization metadata
\* is absent, or has an empty first value, gets a nil response and the status
\* Unauthenticated "missing authorization token"; the validator and the
\* handler are not invoked.
C11_MissingToken ==
    \A k \in 1..Len(alog) :
        (~SkipListed(alog[k].method) /\ FirstAuthorization(alog[k].ctx) = <<>>) =>
            /\ alog[k].resp = "nil"
            /\ alog[k].err = [kind |-> "status", code |-> "Unauthenticated",
                              msg |-> "missing authorization token"]
            /\ ~alog[k].panic
            /\ alog[k].validated = <<>>
            /\ alog[k].handled = <<>>

C11_Witness ==
    \E k \in 1..Len(alog) :
        /\ ~SkipListed(alog[k].method)
        /\ alog[k].ctx.hasMD
        /\ alog[k].ctx.incoming["authorization"] = <<<<>>, TokA>>
        /\ alog[k].err.msg = "missing authorization token"
        /\ alog[k].handled = <<>>

\* C12: a call whose token the validator rejects gets a nil response and the
\* status Unauthenticated "invalid token", and its handler is not invoked;
\* two such calls with the same method and context get the same response
\* whatever errors the validator returned.
C12_InvalidToken ==
    /\ \A k \in 1..Len(alog) :
          alog[k].verr # NilErr =>
              /\ alog[k].resp = "nil"
              /\ alog[k].err = [kind |-> "status", code |-> "Unauthenticated",
                                msg |-> "invalid token"]
              /\ ~alog[k].panic
              /\ alog[k].handled = <<>>
    /\ \A j, k \in 1..Len(alog) :
          (/\ alog[j].verr # NilErr /\ alog[k].verr # NilErr
           /\ alog[j].method = alog[k].method /\ alog[j].ctx = alog[k].ctx)
          => (/\ alog[j].resp = alog[k].resp /\ alog[j].err = alog[k].err
              /\ alog[j].panic = alog[k].panic /\ alog[j].handled = alog[k].handled)

C12_Witness ==
    /\ Len(alog) = 2
    /\ alog[1].verr = PlainError("token is expired")
    /\ alog[2].verr = PlainError("signature is invalid")
    /\ alog[1].method = alog[2].method
    /\ alog[1].ctx = alog[2].ctx
    /\ alog[1].err = alog[2].err

\* C13: for a token t the validator accepts, a call presenting "Bearer "+t
\* and a call presenting t give the validator the same string t and reach
\* the handler with the same identity.
C13_BearerSame ==
    \A j, k \in 1..Len(alog) :
        LET t == FirstAuthorization(alog[j].ctx) IN
        (/\ ~SkipListed(alog[j].method) /\ ~SkipListed(alog[k].method)
         /\ ValidatorAccepts(t)
         /\ FirstAuthorization(alog[k].ctx) = BearerPrefix \o t)
        => /\ alog[j].validated = <<t>>
           /\ alog[k].validated = <<t>>
           /\ Len(alog[j].handled) = 1
           /\ Len(alog[k].handled) = 1
           /\ GetAuthInfo(alog[j].handled[1]) = GetAuthInfo(alog[k].handled[1])
           /\ GetAuthInfo(alog[j].handled[1]).ok

C13_Witness ==
    /\ Len(alog) = 2
    /\ ~SkipListed(alog[1].method) /\ ~SkipListed(alog[2].method)
    /\ FirstAuthorization(alog[1].ctx) = TokA
    /\ FirstAuthorization(alog[2].ctx) = BearerPrefix \o TokA
    /\ alog[1].validated = alog[2].validated
    /\ Len(alog[2].handled) = 1

\* C14: when the validator accepts the token the handler is invoked exactly
\* once, with a context in which GetAuthInfo finds an identity whose UserID,
\* Phone and DeviceID are those of the validator's claims, and the caller
\* gets exactly what the handler returned.
C14_Verified ==
    \A k \in 1..Len(alog) :
        (alog[k].validated # <<>> /\ alog[k].verr = NilErr) =>
            LET c == ValidatorClaims(alog[k].validated[1]) IN
            /\ Len(alog[k].handled) = 1
            /\ Len(alog[k].hout) = 1
            /\ GetAuthInfo(alog[k].handled[1]).ok
            /\ GetAuthInfo(alog[k].handled[1]).info.UserID = c.UserID
            /\ GetAuthInfo(alog[k].handled[1]).info.Phone = c.Phone
            /\ GetAuthInfo(alog[k].handled[1]).info.DeviceID = c.DeviceID
            /\ alog[k].resp = alog[k].hout[1].resp
            /\ alog[k].err = alog[k].hout[1].err
            /\ alog[k].panic = alog[k].hout[1].panic

C14_Witness ==
    \E k \in 1..Len(alog) :
        /\ alog[k].validated = <<TokLong>>
        /\ alog[k].verr = NilErr
        /\ Len(alog[k].handled) = 1
        /\ GetAuthInfo(alog[k].handled[1]).info.UserID = -7
        /\ alog[k].err = StatusError("NotFound", "no such user")

\* what the caller gets after recoveryInterceptor caught a panic
RecoveredOutcome == Outcome("nil", StatusError("Internal", "internal error"), "")

\* C15: when the handler panics the caller gets a nil response and an
\* Internal status error, the panic value is neither raised again nor put
\* into the error, the server stays up, and a later call on the same server
\* whose handler returns gets what its handler returned.
C15_PanicRecovered ==
    /\ \A k \in 1..Len(slog) :
         slog[k].hout.pv # "" =>
            /\ slog[k].caller.resp = "nil"
            /\ slog[k].caller.pv = ""
            /\ slog[k].caller.err.kind = "status"
            /\ StatusCode(slog[k].caller.err) = "Internal"
            /\ slog[k].caller.err.msg # slog[k].hout.pv
    /\ (sphase = "done" /\ shout.pv # "") => srvAlive
    /\ (Len(slog) = 2 /\ slog[1].hout.pv # ""
          /\ slog[2].hout # NoOutcome /\ slog[2].hout.pv = "") =>
            slog[2].caller = slog[2].hout

C15_Witness ==
    /\ Len(slog) = 2
    /\ slog[1].hout.pv = "boom"
    /\ slog[1].caller = RecoveredOutcome
    /\ slog[2].caller = Outcome("resp", NilErr, "")

\* C16: in a server built by NewServer a fault raised in the logging, the
\* timeout or the auth interceptor (installed either way), or in the
\* handler, is caught by recovery: the caller gets the Internal status and
\* the server stays up.
C16_RecoveryOutermost ==
    \A k \in 1..Len(slog) :
        (slog[k].faultAt # "none" \/ slog[k].hout.pv # "") =>
            /\ slog[k].caller = RecoveredOutcome
            /\ srvAlive

\* position of the timeout interceptor in the chain
TimeoutPos ==
    CHOOSE n \in 1..Len(serverChain(srvInstall)) :
        serverChain(srvInstall)[n] = "timeout"

\* C18: the context derived by timeoutInterceptor is released exactly when
\* the interceptor returns, whether the handler returned a response, an
\* error or panicked; after the call has returned it is not live.
C18_Released ==
    sctx.made =>
        (sctx.released <=>
            (sphase = "done" \/ (sphase = "up" /\ sdepth < TimeoutPos)))

C18_Witness ==
    /\ sphase = "done"
    /\ sctx.made
    /\ sctx.released
    /\ shout.pv = "boom"

\* the deadline d is not later than the deadline p
NotLater(d, p) == d.has /\ (p.has => d.at <= p.at)

\* C19: timeoutInterceptor returns only after the handler returned, with
\* exactly the handler's response and error, also when the deadline passed
\* while the handler ran; the deadline of the handler's context is never
\* later than the deadline of the incoming context.
C19_NoPreempt ==
    /\ sphase = "handler" => stout = NoOutcome
    /\ stout # NoOutcome => stout = stin
    /\ (stout # NoOutcome /\ shout # NoOutcome) => stout = shout
    /\ sctx.made => NotLater(sctx.dl, sparentDl)

C19_Witness ==
    /\ stout = Outcome("resp", NilErr, "")
    /\ shout = stout
    /\ Expired(sctx.dl, snow)
    /\ sparentDl = Deadline(1)
    /\ srvTimeout = 2
    /\ sctx.dl = sparentDl

\* every attempt of the call so far ended with nil or a status error
InvokerGaveStatus ==
    \A j \in 1..Len(calls) : calls[j].kind \in {"nil", "status"}

\* C17: every failure the retry engine returns (after a non-retryable
\* error, after the attempts are used up, after a cancellation during a
\* backoff wait) is a status error whenever the invoker itself returned
\* status errors; the failures of the recovery and auth interceptors are
\* status errors by RecoveredOutcome, missingToken and invalidToken.
C17_StructuredOnly ==
    (pc = "done" /\ ret # NilErr /\ InvokerGaveStatus) => ret.kind = "status"

\* C20: a message whose handler returned an error is not committed: the
\* committed offset of the group does not pass a message until a handler
\* invocation for it succeeded, also when later messages are handled and
\* committed.
C20_NoCommitPastFailure ==
    \A o \in 0..(MaxOffset - 1) : o < kcommitted => o \in ksucceeded

\* C21: RunMigrations called with a context that is already cancelled or
\* expired returns a non-nil error and executes neither Force, Migrate nor
\* Up: the schema_migrations row is left as it was.
C21_CancelledAppliesNothing ==
    mctxAtCall # NilErr =>
        /\ mops = <<>>
        /\ mpc = "done" => mret # NilErr

C21_Witness ==
    /\ mpc = "done"
    /\ mctxAtCall = ContextCanceled
    /\ menv.absOk /\ menv.newOk
    /\ mdirty
    /\ mret = PlainError("migration cancelled: context canceled")
    /\ mops = <<>>

\* what the field must hold after Load: the environment value when set, else
\* the YAML value when the file gives one, else the env-default, else zero
Expected(file, f) ==
    IF f.envval # "" THEN f.envval
    ELSE IF AfterYaml(file, f) # ZeroValue(f.kind) THEN f.yaml
    ELSE IF f.def # "" THEN f.def
    ELSE ZeroValue(f.kind)

\* C22: after a successful Load every field with an env tag holds the
\* environment value when the variable is non-empty, otherwise the YAML
\* value when the file provides one, and the env-default only when neither
\* provides a value.
C22_EnvThenYamlThenDefault ==
    (lpc = "done" /\ lerr = NilErr) =>
        \A n \in 1..Len(lfields) :
            lfields[n].tagged => lvals[n] = Expected(lfile, lfields[n])

\* C23: after MultiConsumer.Close returned, Close has been called on every
\* consumer, also when closing one of them returned an error.
C23_ClosesAll ==
    mcpc = "done" => mcClosed = 1..Len(mcCons)

\* C24: while the lock key is held and has not expired, Lock by any client
\* returns false and leaves the holder's value and time in place; Unlock
\* deletes the key exactly when the stored value is the caller's value, so
\* the Unlock of a client whose lock expired does not release the lock
\* another client acquired since.
C24_OwnerCheckedLock ==
    /\ (rlast.op = "Lock" /\ rlast.before.val # "") =>
          /\ ~rlast.ok
          /\ rlast.after = rlast.before
    /\ (rlast.op = "Lock" /\ rlast.before.val = "") =>
          /\ rlast.ok
          /\ rlast.after.val = LockValue(rlast.client)
    /\ rlast.op = "Unlock" =>
          IF rlast.before.val = LockValue(rlast.client)
            THEN rlast.after = NoKey
            ELSE rlast.after = rlast.before

C24_Witness ==
    /\ rlast.op = "Unlock"
    /\ rlast.client = "A"
    /\ "A" \in rexpired
    /\ rlast.before.val = "b"
    /\ rkey.val = "b"

\* the validator was consulted and accepted the token
Accepted(r) == r.validated # <<>> /\ r.verr = NilErr

\* REJECTED: Unauthenticated and a nil response, the handler not invoked
Rejected(r) ==
    /\ r.handled = <<>>
    /\ r.hout = <<>>
    /\ r.resp = "nil"
    /\ r.err.kind = "status"
    /\ StatusCode(r.err) = "Unauthenticated"

\* C25: every call ends in exactly one of VERIFIED (the handler invoked
\* exactly once) and REJECTED (Unauthenticated, the handler not invoked), and
\* the handler is invoked if and only if the method is skip-listed or the
\* validator accepted the token.
C25_OneTerminalState ==
    \A k \in 1..Len(alog) :
        /\ Len(alog[k].handled) \in {0, 1}
        /\ Len(alog[k].hout) = Len(alog[k].handled)
        /\ Len(alog[k].handled) = 0 <=> Rejected(alog[k])
        /\ Len(alog[k].handled) = 1 <=>
              (SkipListed(alog[k].method) \/ Accepted(alog[k]))

C25_Witness ==
    /\ Len(alog) = 2
    /\ Rejected(alog[1])
    /\ ~SkipListed(alog[2].method)
    /\ Accepted(alog[2])
    /\ Len(alog[2].handled) = 1

\* the authorization value starts with the seven characters of "Bearer "
HasBearerPrefix(raw) == Len(raw) >= 7 /\ SubSeq(raw, 1, 7) = BearerPrefix

\* C26: the string given to the validator is value[7:] whenever the
\* authorization value starts with "Bearer ", also when it is exactly
\* "Bearer ", and the value itself otherwise.
C26_BearerStripped ==
    \A k \in 1..Len(alog) :
        alog[k].validated # <<>> =>
            LET raw == FirstAuthorization(alog[k].ctx) IN
            alog[k].validated[1] =
                IF HasBearerPrefix(raw) THEN SubSeq(raw, 8, Len(raw)) ELSE raw

\* C27: after a successful authentication the handler's context has
\* x-user-id with the decimal text of the user id appended to the outgoing
\* metadata and the same incoming metadata as the call's context; on a skip
\* the handler gets the call's context itself, and on a rejection nothing
\* is handed on.
C27_UserIdOutgoing ==
    \A k \in 1..Len(alog) :
        LET r == alog[k] IN
        /\ (~SkipListed(r.method) /\ Accepted(r)) =>
              /\ Len(r.handled) = 1
              /\ r.handled[1].outgoing =
                    Append(r.ctx.outgoing,
                           <<"x-user-id", SprintfD(ValidatorClaims(r.validated[1]).UserID)>>)
              /\ r.handled[1].incoming = r.ctx.incoming
              /\ r.handled[1].hasMD = r.ctx.hasMD
        /\ SkipListed(r.method) => r.handled = <<r.ctx>>
        /\ (~SkipListed(r.method) /\ ~Accepted(r)) => r.handled = <<>>

C27_Witness ==
    \E k \in 1..Len(alog) :
        /\ Accepted(alog[k])
        /\ Len(alog[k].handled) = 1
        /\ alog[k].ctx.outgoing = <<<<"x-request-id", <<"r", "1">>>>>>
        /\ alog[k].handled[1].outgoing =
              <<<<"x-request-id", <<"r", "1">>>>, <<"x-user-id", <<"-", "7">>>>>>

\* the contexts of a call: the one it arrived with, the ones the handler
\* was invoked with, and a context derived from each of them
CallContexts(r) ==
    LET base == {r.ctx} \cup {r.handled[n] : n \in 1..Len(r.handled)}
    IN  base \cup {ChildContext(c) : c \in base}

\* the gate attached an identity to the context or to an ancestor of it
Attached(r, c) ==
    /\ ~SkipListed(r.method)
    /\ Accepted(r)
    /\ \E n \in 1..Len(r.handled) : c \in {r.handled[n], ChildContext(r.handled[n])}

\* C30: GetAuthInfo returns (identity, true) exactly for the contexts that
\* descend from one on which the gate attached an identity and (nil, false)
\* otherwise; MustGetAuthInfo returns the identity GetAuthInfo returns when
\* there is one and panics when there is none.
C30_AuthInfoAccessors ==
    \A k \in 1..Len(alog) : \A c \in CallContexts(alog[k]) :
        /\ GetAuthInfo(c).ok <=> Attached(alog[k], c)
        /\ GetAuthInfo(c).ok =>
              /\ GetAuthInfo(c).info.set
              /\ GetAuthInfo(c).info.UserID =
                    ValidatorClaims(alog[k].validated[1]).UserID
              /\ MustGetAuthInfo(c) = [panic |-> FALSE, info |-> GetAuthInfo(c).info]
        /\ ~GetAuthInfo(c).ok =>
              /\ GetAuthInfo(c).info = NoAuthInfo
              /\ MustGetAuthInfo(c).panic
        /\ ~MustGetAuthInfo(c).panic => MustGetAuthInfo(c).info.set

C30_Witness ==
    /\ Len(alog) = 2
    /\ SkipListed(alog[1].method)
    /\ Len(alog[1].handled) = 1
    /\ MustGetAuthInfo(alog[1].handled[1]).panic
    /\ Accepted(alog[2])
    /\ Len(alog[2].handled) = 1
    /\ MustGetAuthInfo(ChildContext(alog[2].handled[1])).info.UserID = 42

\* C28: for every call that entered loggingInterceptor and was answered
\* (no fault in an interceptor itself),
\* exactly one completion record was logged: at debug level for the code OK,
\* at warn level with the code and the error otherwise; also when the
\* handler panicked and the caller got Internal.
C28_OneCompletionRecord ==
    \A k \in 1..Len(slog) :
        (slog[k].entered /\ slog[k].caller.pv = "" /\ slog[k].faultAt = "none") =>
            /\ Len(slog[k].emitted) = 1
            /\ slog[k].emitted[1].code =
                  (IF slog[k].caller.err = NilErr THEN "OK"
                   ELSE StatusCode(slog[k].caller.err))
            /\ slog[k].emitted[1].level =
                  (IF slog[k].caller.err = NilErr THEN "debug" ELSE "warn")
            /\ slog[k].emitted[1].err = slog[k].caller.err

\* C29: while the retry interceptor runs only the start record is logged;
\* when the call is over exactly one start and one completion record are
\* logged whatever the number of attempts, the completion record has the
\* code of the error the retry engine returned and a duration covering all
\* backoff waits, and the caller gets the retry engine's error unchanged.
C29_LoggingAroundRetry ==
    /\ clpc = "inner" => clrecs = <<startRecord>>
    /\ clpc = "done" =>
          /\ Len(clrecs) = 2
          /\ clrecs[1] = startRecord
          /\ clrecs[2].kind = "completed"
          /\ clrecs[2].code = StatusCode(ret)
          /\ clrecs[2].level = (IF StatusCode(ret) = "OK" THEN "debug" ELSE "warn")
          /\ clrecs[2].err = ret
          /\ clrecs[2].duration = elapsed
          /\ clret = ret

C29_Witness ==
    /\ clpc = "done"
    /\ Len(calls) = 3
    /\ elapsed > 0
    /\ ret = StatusError("Unavailable", "e2")
    /\ clrecs[2].code = "Unavailable"
    /\ clrecs[2].level = "warn"

\* C31 (first part): Consume returns only when its context is done, and
\* then returns the context's error.
C31_ReturnsContextError ==
    kpc = "returned" => (kctxErr # NilErr /\ kret = kctxErr)

\* C31: the handler is never invoked on a message that FetchMessage
\* delivered after the context was cancelled.
C31_NoHandlerAfterCancel ==
    [][(kpc = "handle" /\ kpc' # "handle") => kfetchCtx = NilErr]_vars

\* C32: a goroutine of ConsumeAll that has a result to deliver always finds
\* a free slot on errCh, before and after ConsumeAll returned; ConsumeAll
\* returns only with the result of a consumer or with the error of the
\* done context.
C32_NoBlockedSender ==
    /\ \A k \in 1..caN : cag[k] = "sending" => Len(caCh) < errChCap(caN)
    /\ capc = "returned" => (caret # NilErr /\ caret = caCtx)

C32_Witness ==
    /\ capc = "returned"
    /\ caN = 3
    /\ \A k \in 1..caN : cag[k] = "done"
    /\ Len(caCh) >= 2

\* C33: a transaction WithTx started sees at most one attempt, and when
\* WithTx is over exactly one: a commit if and only if fn returned nil, a
\* rollback if fn returned an error or panicked; fn's error is returned
\* unchanged whatever the rollback did, and a panic of fn is raised again
\* after the rollback.
C33_CommitXorRollback ==
    /\ Len(txops) <= 1
    /\ (txpc \in {"done", "panicked"} /\ txenv.begin = NilErr) =>
          /\ Len(txops) = 1
          /\ (txops = <<"commit">>) <=>
                (txenv.fn.kind = "return" /\ txenv.fn.err = NilErr)
          /\ (txenv.fn.kind = "return" /\ txenv.fn.err # NilErr) =>
                (txops = <<"rollback">> /\ txret = txenv.fn.err /\ txpc = "done")
          /\ txenv.fn.kind = "panic" =>
                (txops = <<"rollback">> /\ txpc = "panicked"
                 /\ txraised = txenv.fn.pv)

C33_Witness ==
    /\ txpc = "done"
    /\ txenv.begin = NilErr
    /\ txenv.fn.err = StatusError("NotFound", "no row")
    /\ txenv.rollback # NilErr
    /\ txops = <<"rollback">>
    /\ txret = StatusError("NotFound", "no row")

\* C34: when retryInterceptor has returned nil, the call was invoked at
\* least once and its most recent invocation returned nil, for every
\* maxRetries including 0 and negative values.
C34_SuccessOnlyAfterInvocation ==
    (pc = "done" /\ ret = NilErr) =>
        (Len(calls) >= 1 /\ calls[Len(calls)] = NilErr)

\* C35: on the context of a handler invoked after the gate verified the
\* call, GetUserID gives the UserID of the authenticated identity, whatever
\* x-user-id the client sent.
C35_UserIdMatchesIdentity ==
    \A k \in 1..Len(alog) :
        \A c \in 1..Len(alog[k].handled) :
            GetAuthInfo(alog[k].handled[c]).ok =>
                GetUserID(alog[k].handled[c]) =
                    GetAuthInfo(alog[k].handled[c]).info.UserID

\* C36: for every configured Timeout, zero included, a handler invoked for
\* a call whose incoming context is live gets a context that has not
\* expired at the moment of the invocation.
C36_HandlerContextLive ==
    [][(sphase = "down" /\ sphase' = "handler" /\ ~Expired(sparentDl, snow))
          => ~Expired(sctx'.dl, snow')]_vars

\* C37: with an auth interceptor installed, a call of a skip-listed method
\* whose handler calls MustGetAuthInfo ends for the caller with a nil
\* response and Internal "internal error", no panic leaves the chain, and
\* the server is alive after the call.
C37_MustGetAuthInfoContained ==
    \A k \in 1..Len(slog) :
        (srvInstall # "none" /\ slog[k].auth = "skipped"
            /\ slog[k].hout.pv = "auth info not found in context") =>
            /\ slog[k].caller = Outcome("nil", StatusError("Internal", "internal error"), "")
            /\ k = Len(slog) => srvAlive

C37_Witness ==
    /\ srvInstall = "chain"
    /\ Len(slog) = 2
    /\ slog[1].auth = "skipped"
    /\ slog[1].hout.pv = "auth info not found in context"
    /\ StatusCode(slog[1].caller.err) = "Internal"
    /\ slog[2].caller = Outcome("resp", NilErr, "")
    /\ srvAlive

\* C38: for a Connect error with one of the 13 named codes, converting the
\* result of the conversion again keeps its gRPC code and its message.
C38_ConvertIdempotent ==
    (Len(couts) >= 2 /\ IsNamedConnectError(cin)) =>
        /\ couts[2].code = couts[1].code
        /\ couts[2].msg = couts[1].msg

\* C39: a refresh token of an issued pair is rejected by
\* ValidateAccessToken, and an access token is rejected by
\* ValidateRefreshToken and by Refresh.
C39_TokensKeptApart ==
    /\ (jlast.op = "ValidateAccessToken" /\ jlast.slot = "refresh") => ~jlast.ok
    /\ (jlast.op \in {"ValidateRefreshToken", "Refresh"} /\ jlast.slot = "access")
          => ~jlast.ok

====
